---- MODULE Spec2Model ----
(***************************************************************************)
(* MITRE ATT&CK matrix backend (src/main.py): normalisation of a STIX      *)
(* bundle (parse_matrix), the JSON cache (save_to_cache, load_from_cache), *)
(* the application start (lifespan), the background timer loop             *)
(* (update_matrix_task), the manual refresh handler (refresh_matrix) and   *)
(* the read handlers, as one state machine.                                *)
(*                                                                         *)
(* Conventions.  A Python str is a sequence of code points (<<84, 49>> is  *)
(* "T1"), so that lower(), replace(), startswith() and the ordering of     *)
(* sorted() are computed and not assumed.  A Python dict with fixed keys   *)
(* is a record; an absent key is an absent field.  A Python dict whose     *)
(* keys are data (tactics, matrix, techniques, technique_index) is a       *)
(* sequence of <<key, value>> pairs in insertion order.  The asyncio event *)
(* loop runs one coroutine at a time, so each action is the code between   *)
(* two awaits.                                                             *)
(***************************************************************************)
EXTENDS Integers, Sequences, FiniteSets, TLC

\* ------------------------------------------------------------ Python values

\* None where a str is expected (no code point is negative).
None == <<-1>>

\* None where a dict is expected (AppState.matrix_data, a function's result).
NoData == [none |-> TRUE]

\* AppState.last_update = None.
NoTime == -1

\* dict.get(k, d) on a dict with fixed keys.
Get(r, k, d) == IF k \in DOMAIN r THEN r[k] ELSE d

\* str.lower() / str.upper(), on the ASCII letters.
LowerCh(c) == IF c >= 65 /\ c <= 90 THEN c + 32 ELSE c

UpperCh(c) == IF c >= 97 /\ c <= 122 THEN c - 32 ELSE c

Lower(s) == [i \in 1..Len(s) |-> LowerCh(s[i])]

Upper(s) == [i \in 1..Len(s) |-> UpperCh(s[i])]

\* str.replace(" ", "-").
SpacesToHyphens(s) == [i \in 1..Len(s) |-> IF s[i] = 32 THEN 45 ELSE s[i]]

\* s.startswith(p).
StartsWith(s, p) == Len(p) <= Len(s) /\ SubSeq(s, 1, Len(p)) = p

\* a < b for two str: lexicographic on code points, a proper prefix first.
StrLess(a, b) ==
    \E k \in 1..(Len(b)) :
        /\ k <= Len(a) + 1
        /\ \A j \in 1..(k - 1) : a[j] = b[j]
        /\ (k = Len(a) + 1 \/ (k <= Len(a) /\ a[k] < b[k]))

\* k in d, d[k], d[k] = v, d.values() for a dict whose keys are data.
DictHas(d, k) == \E i \in 1..Len(d) : d[i][1] = k

DictGet(d, k) == d[CHOOSE i \in 1..Len(d) : d[i][1] = k][2]

DictSet(d, k, v) ==
    IF DictHas(d, k)
    THEN [i \in 1..Len(d) |-> IF d[i][1] = k THEN <<k, v>> ELSE d[i]]
    ELSE Append(d, <<k, v>>)

DictValues(d) == [i \in 1..Len(d) |-> d[i][2]]

\* sorted(xs, key=lambda x: x["id"]) and list.sort(key=...): stable.
RECURSIVE InsertById(_, _)
InsertById(sorted, x) ==
    IF sorted = <<>> THEN <<x>>
    ELSE IF StrLess(x.id, sorted[Len(sorted)].id)
         THEN Append(InsertById(SubSeq(sorted, 1, Len(sorted) - 1), x),
                     sorted[Len(sorted)])
         ELSE Append(sorted, x)

RECURSIVE SortById(_)
SortById(xs) ==
    IF xs = <<>> THEN <<>>
    ELSE InsertById(SortById(SubSeq(xs, 1, Len(xs) - 1)), xs[Len(xs)])

\* ------------------------------------------------------------ parse_matrix

NA == <<78, 47, 65>>  \* "N/A"

Unknown == <<85, 110, 107, 110, 111, 119, 110>>  \* "Unknown"

\* The source names that mark the ATT&CK reference of a record.
MitreAliases ==
    { <<109, 105, 116, 114, 101, 45, 97, 116, 116, 97, 99, 107>>,  \* "mitre-attack"
      <<97, 116, 116, 97, 99, 107>>,                                \* "attack"
      <<109, 105, 116, 114, 101>> }                                 \* "mitre"

\* x or d, for a str x that may be None or empty.
OrElse(x, d) == IF x = None \/ x = <<>> THEN d ELSE x

\* An element of "objects" that is not a JSON object: obj.get raises.
IsDict(obj) == "notdict" \notin DOMAIN obj

\* The index of the first external reference whose source name is a MITRE
\* alias, 0 when there is none (the for ... break loop).
IsAlias(ref) == Lower(Get(ref, "source_name", <<>>)) \in MitreAliases

FirstAlias(refs) ==
    IF \A i \in 1..Len(refs) : ~IsAlias(refs[i]) THEN 0
    ELSE CHOOSE i \in 1..Len(refs) :
            IsAlias(refs[i]) /\ \A j \in 1..(i - 1) : ~IsAlias(refs[j])

\* external_id and mitre_url of an attack-pattern, as the two steps compute
\* them: the alias reference first, then the first reference when the id is
\* still "N/A".
AliasRef(refs, a) ==
    IF a = 0 THEN [external_id |-> NA, mitre_url |-> None]
    ELSE [external_id |-> Get(refs[a], "external_id", NA),
          mitre_url   |-> Get(refs[a], "url", None)]

Fallback(refs, found) ==
    IF found.external_id = NA /\ refs # <<>>
    THEN [external_id |-> Get(refs[1], "external_id", NA),
          mitre_url   |-> Get(refs[1], "url", found.mitre_url)]
    ELSE found

ResolveRef(refs) == Fallback(refs, AliasRef(refs, FirstAlias(refs)))

FormatRef(ref) ==
    [source_name |-> Get(ref, "source_name", <<>>),
     description |-> Get(ref, "description", None),
     url         |-> Get(ref, "url", None),
     external_id |-> Get(ref, "external_id", None)]

PhaseNames(kill_chain) ==
    [i \in 1..Len(kill_chain) |-> Get(kill_chain[i], "phase_name", <<>>)]

\* tech_data, from the record and its locals external_references,
\* kill_chain and the resolved (external_id, mitre_url).
TechDataOf(obj, refs, kc, res) ==
    [id                  |-> res.external_id,
     name                |-> Get(obj, "name", Unknown),
     description         |-> OrElse(Get(obj, "description", <<>>),
                                   \* "Описание недоступно в STIX JSON."
                                   <<1054, 1087, 1080, 1089, 1072, 1085, 1080, 1077, 32, 1085, 1077, 1076, 1086, 1089, 1090, 1091, 1087, 1085, 1086, 32, 1074, 32, 83, 84, 73, 88, 32, 74, 83, 79, 78, 46>>),
     platforms           |-> Get(obj, "x_mitre_platforms", <<>>),
     tactics             |-> [i \in 1..Len(kc) |-> Lower(PhaseNames(kc)[i])],
     mitre_url           |-> res.mitre_url,
     detection           |-> OrElse(Get(obj, "x_mitre_detection", None),
                                   \* "Нет данных о детекции"
                                   <<1053, 1077, 1090, 32, 1076, 1072, 1085, 1085, 1099, 1093, 32, 1086, 32, 1076, 1077, 1090, 1077, 1082, 1094, 1080, 1080>>),
     external_references |-> [i \in 1..Len(refs) |-> FormatRef(refs[i])],
     kill_chain_phases   |-> PhaseNames(kc),
     stix_id             |-> Get(obj, "id", <<>>)]

TechData(obj) ==
    TechDataOf(obj, Get(obj, "external_references", <<>>),
               Get(obj, "kill_chain_phases", <<>>),
               ResolveRef(Get(obj, "external_references", <<>>)))

\* The slug a tactic record is stored under.
TacticSlug(obj) == SpacesToHyphens(Lower(Get(obj, "name", Unknown)))

\* A faulty variant: the T filter is missing.
StoreTech_unfiltered(st, obj, td) ==
    IF td.id = None THEN [st EXCEPT !.err = TRUE]
    ELSE IF Get(obj, "x_mitre_is_subtechnique", FALSE)
         THEN [st EXCEPT !.subtechniques = DictSet(@, Get(obj, "id", None), td)]
         ELSE [st EXCEPT !.techniques = DictSet(@, Get(obj, "id", None), td)]

\* The end of the attack-pattern branch: the T filter and the two stores.
StoreTech(st, obj, td) ==
    IF td.id = None THEN [st EXCEPT !.err = TRUE]  \* None.startswith raises
    ELSE IF ~StartsWith(td.id, <<84>>) THEN st     \* continue
    ELSE IF Get(obj, "x_mitre_is_subtechnique", FALSE)
         THEN [st EXCEPT !.subtechniques = DictSet(@, Get(obj, "id", None), td)]
         ELSE [st EXCEPT !.techniques = DictSet(@, Get(obj, "id", None), td)]

\* One iteration of the first loop; err is a raised exception.
Pass1Step(st, obj) ==
    IF ~IsDict(obj) THEN [st EXCEPT !.err = TRUE]
    ELSE IF Get(obj, "type", "") = "x-mitre-tactic" THEN
        [st EXCEPT
            !.tactics = DictSet(@, TacticSlug(obj),
                            [name        |-> Get(obj, "name", Unknown),
                             description |-> Get(obj, "description", <<>>),
                             shortname   |-> Get(obj, "x_mitre_shortname", <<>>)]),
            !.matrix = DictSet(@, TacticSlug(obj), <<>>)]
    ELSE IF Get(obj, "type", "") = "attack-pattern" THEN
        StoreTech(st, obj, TechData(obj))
    ELSE st

RECURSIVE Pass1(_, _, _)
Pass1(objects, i, st) ==
    IF i > Len(objects) \/ st.err THEN st
    ELSE Pass1(objects, i + 1, Pass1Step(st, objects[i]))

\* The record of a technique or sub-technique as the matrix holds it (the
\* fields of tech_data without stix_id).
MatrixFields(td) ==
    [id                  |-> td.id,
     name                |-> td.name,
     description         |-> td.description,
     platforms           |-> td.platforms,
     tactics             |-> td.tactics,
     mitre_url           |-> td.mitre_url,
     detection           |-> td.detection,
     external_references |-> td.external_references,
     kill_chain_phases   |-> td.kill_chain_phases]

\* A faulty variant: the prefix test is missing, every sub-technique is
\* attached.
RECURSIVE SelectSubs_all(_, _, _)
SelectSubs_all(subs, i, tid) ==
    IF i > Len(subs) THEN <<>>
    ELSE <<MatrixFields(subs[i])>> \o SelectSubs_all(subs, i + 1, tid)

RECURSIVE SelectSubs(_, _, _)
SelectSubs(subs, i, tid) ==
    IF i > Len(subs) THEN <<>>
    ELSE IF StartsWith(subs[i].id, tid \o <<46>>)
         THEN <<MatrixFields(subs[i])>> \o SelectSubs(subs, i + 1, tid)
         ELSE SelectSubs(subs, i + 1, tid)

\* technique_obj of the second loop.
TechniqueObj(technique, subtechniques) ==
    [id                  |-> technique.id,
     name                |-> technique.name,
     description         |-> technique.description,
     platforms           |-> technique.platforms,
     tactics             |-> technique.tactics,
     mitre_url           |-> technique.mitre_url,
     detection           |-> technique.detection,
     external_references |-> technique.external_references,
     kill_chain_phases   |-> technique.kill_chain_phases,
     subtechniques       |-> SortById(SelectSubs(DictValues(subtechniques), 1,
                                                 technique.id))]

\* for tactic in technique["tactics"]: if tactic in matrix: append.
RECURSIVE AppendToTactics(_, _, _, _)
AppendToTactics(matrix, tactics, i, tobj) ==
    IF i > Len(tactics) THEN matrix
    ELSE AppendToTactics(
            IF DictHas(matrix, tactics[i])
            THEN DictSet(matrix, tactics[i], Append(DictGet(matrix, tactics[i]), tobj))
            ELSE matrix,
            tactics, i + 1, tobj)

RECURSIVE Pass2(_, _, _, _)
Pass2(techs, i, subtechniques, matrix) ==
    IF i > Len(techs) THEN matrix
    ELSE Pass2(techs, i + 1, subtechniques,
               AppendToTactics(matrix, techs[i].tactics, 1,
                               TechniqueObj(techs[i], subtechniques)))

RECURSIVE BuildIndex(_, _, _)
BuildIndex(index, tds, i) ==
    IF i > Len(tds) THEN index
    ELSE BuildIndex(DictSet(index, Lower(tds[i].id), tds[i]), tds, i + 1)

\* sum(len(tech["subtechniques"]) for techs in matrix.values() for tech in techs)
RECURSIVE SumRow(_, _)
SumRow(techs, j) ==
    IF j > Len(techs) THEN 0
    ELSE Len(techs[j].subtechniques) + SumRow(techs, j + 1)

RECURSIVE SumSubs(_, _)
SumSubs(lists, i) ==
    IF i > Len(lists) THEN 0
    ELSE SumRow(lists[i], 1) + SumSubs(lists, i + 1)

\* The sort of every tactic's list and the returned dict, from the locals of
\* parse_matrix after its two loops.
SortLists(filled) ==
    [i \in 1..Len(filled) |-> <<filled[i][1], SortById(filled[i][2])>>]

Dataset(tactics, techniques, matrix, index) ==
    [tactics         |-> tactics,
     matrix          |-> matrix,
     technique_index |-> index,
     statistics      |->
         [total_tactics       |-> Len(tactics),
          total_techniques    |-> Len(techniques),
          total_subtechniques |-> SumSubs(DictValues(matrix), 1)]]

\* The part of parse_matrix after the first loop.
AfterPass1(st) ==
    IF st.err THEN NoData
    ELSE Dataset(st.tactics, st.techniques,
                 SortLists(Pass2(DictValues(st.techniques), 1, st.subtechniques,
                                 st.matrix)),
                 BuildIndex(BuildIndex(<<>>, DictValues(st.techniques), 1),
                            DictValues(st.subtechniques), 1))

\* The locals of parse_matrix after its first loop.
FirstPass(raw) ==
    Pass1(Get(raw, "objects", <<>>), 1,
          [techniques |-> <<>>, subtechniques |-> <<>>,
           tactics |-> <<>>, matrix |-> <<>>, err |-> FALSE])

\* parse_matrix(raw_data), raw standing for its parameter: the Dataset, or
\* NoData when anything raised.
parse_matrix(raw) ==
    IF "notdict" \in DOMAIN raw THEN NoData    \* raw_data.get raises
    ELSE AfterPass1(FirstPass(raw))

\* ------------------------------------------------------------ JSON text

(* json.dump and json.load.  A JSON value is a tree; the text of a file is  *)
(* the sequence of its tokens (commas, colons and white space carry no      *)
(* information and are left out).  A file cut short by a failed write or a  *)
(* crash is a proper prefix of the token sequence.                          *)

JNull == [t |-> "null"]

JStr(s) == [t |-> "str", s |-> s]

JNum(n) == [t |-> "num", n |-> n]

JArr(e) == [t |-> "arr", e |-> e]

JObj(m) == [t |-> "obj", m |-> m]

\* The JSON member name of a dict key the code writes as a literal.
KeyOf(f) ==
    IF f = "tactics" THEN <<116, 97, 99, 116, 105, 99, 115>> ELSE
    IF f = "matrix" THEN <<109, 97, 116, 114, 105, 120>> ELSE
    IF f = "technique_index" THEN <<116, 101, 99, 104, 110, 105, 113, 117, 101, 95, 105, 110, 100, 101, 120>> ELSE
    IF f = "statistics" THEN <<115, 116, 97, 116, 105, 115, 116, 105, 99, 115>> ELSE
    IF f = "id" THEN <<105, 100>> ELSE
    IF f = "name" THEN <<110, 97, 109, 101>> ELSE
    IF f = "source_name" THEN <<115, 111, 117, 114, 99, 101, 95, 110, 97, 109, 101>> ELSE
    IF f = "description" THEN <<100, 101, 115, 99, 114, 105, 112, 116, 105, 111, 110>> ELSE
    IF f = "shortname" THEN <<115, 104, 111, 114, 116, 110, 97, 109, 101>> ELSE
    IF f = "url" THEN <<117, 114, 108>> ELSE
    IF f = "external_id" THEN <<101, 120, 116, 101, 114, 110, 97, 108, 95, 105, 100>> ELSE
    IF f = "platforms" THEN <<112, 108, 97, 116, 102, 111, 114, 109, 115>> ELSE
    IF f = "mitre_url" THEN <<109, 105, 116, 114, 101, 95, 117, 114, 108>> ELSE
    IF f = "detection" THEN <<100, 101, 116, 101, 99, 116, 105, 111, 110>> ELSE
    IF f = "external_references" THEN <<101, 120, 116, 101, 114, 110, 97, 108, 95, 114, 101, 102, 101, 114, 101, 110, 99, 101, 115>> ELSE
    IF f = "kill_chain_phases" THEN <<107, 105, 108, 108, 95, 99, 104, 97, 105, 110, 95, 112, 104, 97, 115, 101, 115>> ELSE
    IF f = "subtechniques" THEN <<115, 117, 98, 116, 101, 99, 104, 110, 105, 113, 117, 101, 115>> ELSE
    IF f = "total_tactics" THEN <<116, 111, 116, 97, 108, 95, 116, 97, 99, 116, 105, 99, 115>> ELSE
    IF f = "total_techniques" THEN <<116, 111, 116, 97, 108, 95, 116, 101, 99, 104, 110, 105, 113, 117, 101, 115>> ELSE
    IF f = "total_subtechniques" THEN <<116, 111, 116, 97, 108, 95, 115, 117, 98, 116, 101, 99, 104, 110, 105, 113, 117, 101, 115>> ELSE
    IF f = "last_update" THEN <<108, 97, 115, 116, 95, 117, 112, 100, 97, 116, 101>> ELSE
    IF f = "update_interval" THEN <<117, 112, 100, 97, 116, 101, 95, 105, 110, 116, 101, 114, 118, 97, 108>> ELSE
    <<>>

\* The keys of the dicts the code builds, in the order it inserts them.
FieldOrder ==
    <<"tactics", "matrix", "technique_index", "statistics",
      "id", "name", "source_name", "description", "shortname", "url",
      "external_id", "platforms", "mitre_url", "detection",
      "external_references", "kill_chain_phases", "subtechniques",
      "total_tactics", "total_techniques", "total_subtechniques",
      "last_update", "update_interval">>

FieldOf(key) == CHOOSE f \in {FieldOrder[i] : i \in 1..Len(FieldOrder)} : KeyOf(f) = key

\* The keys of dict r in insertion order.
RECURSIVE KeysInOrder(_, _)
KeysInOrder(r, i) ==
    IF i > Len(FieldOrder) THEN <<>>
    ELSE (IF FieldOrder[i] \in DOMAIN r THEN <<FieldOrder[i]>> ELSE <<>>)
         \o KeysInOrder(r, i + 1)

\* The JSON value of a Python value: the encoder's dispatch on the type of
\* the value, which here the key decides.
RECURSIVE ToJson(_, _)
RECURSIVE ToJsonMembers(_, _)
ToJson(f, v) ==
    CASE f \in {"total_tactics", "total_techniques", "total_subtechniques",
                "last_update", "update_interval"} -> JNum(v)
      [] f \in {"platforms", "kill_chain_phases"} ->
            JArr([i \in 1..Len(v) |-> ToJson("name", v[i])])
      [] f \in {"external_references", "subtechniques", "techniques"} ->
            JArr([i \in 1..Len(v) |-> ToJson("record", v[i])])
      [] f = "record" \/ f = "statistics" -> ToJsonMembers(v, KeysInOrder(v, 1))
      [] f = "tactics" ->
            JObj([i \in 1..Len(v) |-> <<v[i][1], ToJson("record", v[i][2])>>])
      [] f = "matrix" ->
            JObj([i \in 1..Len(v) |-> <<v[i][1], ToJson("techniques", v[i][2])>>])
      [] OTHER -> IF v = None THEN JNull ELSE JStr(v)

\* A dict with literal keys ks: the list of tactic slugs of a technique is
\* a list of str.
ToJsonMembers(v, ks) ==
    JObj([i \in 1..Len(ks) |->
            <<KeyOf(ks[i]),
              ToJson(IF ks[i] = "tactics" THEN "platforms" ELSE ks[i], v[ks[i]])>>])

RECURSIVE Flatten(_, _)
Flatten(seqs, i) == IF i > Len(seqs) THEN <<>> ELSE seqs[i] \o Flatten(seqs, i + 1)

\* The text of a JSON value.
RECURSIVE Tokens(_)
Tokens(j) ==
    CASE j.t = "arr" ->
            <<[t |-> "["]>> \o Flatten([i \in 1..Len(j.e) |-> Tokens(j.e[i])], 1)
                            \o <<[t |-> "]"]>>
      [] j.t = "obj" ->
            <<[t |-> "{"]>>
            \o Flatten([i \in 1..Len(j.m) |-> <<JStr(j.m[i][1])>> \o Tokens(j.m[i][2])], 1)
            \o <<[t |-> "}"]>>
      [] OTHER -> <<j>>

\* json.loads: the value of a text, or not ok (JSONDecodeError).
ParseFail == [ok |-> FALSE]

RECURSIVE ParseValue(_, _)
RECURSIVE ParseElems(_, _, _)
RECURSIVE ParseMembers(_, _, _)
RECURSIVE ElemParsed(_, _, _)
RECURSIVE MemberParsed(_, _, _, _)
ParseValue(toks, i) ==
    IF i > Len(toks) THEN ParseFail
    ELSE CASE toks[i].t \in {"str", "num", "null"} ->
                [ok |-> TRUE, v |-> toks[i], next |-> i + 1]
           [] toks[i].t = "[" -> ParseElems(toks, i + 1, <<>>)
           [] toks[i].t = "{" -> ParseMembers(toks, i + 1, <<>>)
           [] OTHER -> ParseFail

ParseElems(toks, i, acc) ==
    IF i > Len(toks) THEN ParseFail
    ELSE IF toks[i].t = "]" THEN [ok |-> TRUE, v |-> JArr(acc), next |-> i + 1]
    ELSE ElemParsed(toks, acc, ParseValue(toks, i))

ParseMembers(toks, i, acc) ==
    IF i > Len(toks) THEN ParseFail
    ELSE IF toks[i].t = "}" THEN [ok |-> TRUE, v |-> JObj(acc), next |-> i + 1]
    ELSE IF toks[i].t # "str" THEN ParseFail
    ELSE MemberParsed(toks, acc, toks[i].s, ParseValue(toks, i + 1))

\* After one element / one member value was read (r): go on, or fail.
ElemParsed(toks, acc, r) ==
    IF r.ok THEN ParseElems(toks, r.next, Append(acc, r.v)) ELSE ParseFail

MemberParsed(toks, acc, key, r) ==
    IF r.ok THEN ParseMembers(toks, r.next, DictSet(acc, key, r.v)) ELSE ParseFail

\* The whole text must be one value.
WholeText(toks, r) == IF r.ok /\ r.next = Len(toks) + 1 THEN r ELSE ParseFail

json_loads(toks) == WholeText(toks, ParseValue(toks, 1))

\* The Python value of a JSON value: a dict of literal keys as a record.
RECURSIVE FromJson(_)
FromJson(j) ==
    CASE j.t = "null" -> None
      [] j.t = "str" -> j.s
      [] j.t = "num" -> j.n
      [] j.t = "arr" -> [i \in 1..Len(j.e) |-> FromJson(j.e[i])]
      [] j.t = "obj" ->
            [f \in {FieldOf(j.m[i][1]) : i \in 1..Len(j.m)} |->
                FromJson(DictGet(j.m, KeyOf(f)))]

\* The same for a dict whose keys are data.
FromJsonDict(j) == [i \in 1..Len(j.m) |-> <<j.m[i][1], FromJson(j.m[i][2])>>]

\* The dict json.load returns for a cache file.
FromJsonCache(j) ==
    [f \in {FieldOf(j.m[i][1]) : i \in 1..Len(j.m)} |->
        IF f \in {"tactics", "matrix"}
        THEN FromJsonDict(DictGet(j.m, KeyOf(f)))
        ELSE FromJson(DictGet(j.m, KeyOf(f)))]

\* ------------------------------------------------------------ cache files

\* A file of the cache directory: whether it exists, and its text.
NoFile == [exists |-> FALSE, text |-> <<>>]

File(text) == [exists |-> TRUE, text |-> text]

\* A faulty variant: only the tactics and the matrix are kept.
CacheData_matrix_only(data) == [k \in {"tactics", "matrix"} |-> data[k]]

\* cache_data of save_to_cache: data without its technique_index.
CacheData(data) == [k \in DOMAIN data \ {"technique_index"} |-> data[k]]

\* The text json.dump writes for cache_data.
TopLevel(cd, ks) ==
    JObj([i \in 1..Len(ks) |-> <<KeyOf(ks[i]), ToJson(ks[i], cd[ks[i]])>>])

DataText(data) == Tokens(TopLevel(CacheData(data), KeysInOrder(CacheData(data), 1)))

\* The text json.dump writes for the metadata (the timestamp is the clock's
\* reading; nothing in the program reads it back).
MetaText(time, interval) ==
    Tokens(ToJson("record", [last_update |-> time, update_interval |-> interval]))

\* The files after save_to_cache(data) ran up to point p: before the data
\* file is opened ("open_data"), after k tokens of it ("data"), before the
\* metadata file is opened ("open_meta"), after k tokens of it ("meta"), or
\* at its end ("done").  open(..., "w") truncates, and the text is written
\* front to back.
save_to_cache(d, data, time, interval, p) ==
    CASE p.at = "open_data" -> d
      [] p.at = "data" ->
            [d EXCEPT !.data = File(SubSeq(DataText(data), 1, p.k))]
      [] p.at = "open_meta" -> [d EXCEPT !.data = File(DataText(data))]
      [] p.at = "meta" ->
            [data |-> File(DataText(data)),
             meta |-> File(SubSeq(MetaText(time, interval), 1, p.k))]
      [] OTHER ->
            [data |-> File(DataText(data)), meta |-> File(MetaText(time, interval))]

\* load_from_cache(): the dict of the data file, or None when the file is
\* absent or json.load raised.
Loaded(r) == IF r.ok THEN FromJsonCache(r.v) ELSE NoData

\* A faulty variant: only the missing file is handled, json.load's exception
\* gets out.
load_from_cache_raises(d) ==
    IF ~d.data.exists THEN NoData
    ELSE IF json_loads(d.data.text).ok THEN Loaded(json_loads(d.data.text))
    ELSE [raised |-> TRUE]

load_from_cache(d) ==
    IF ~d.data.exists THEN NoData ELSE Loaded(json_loads(d.data.text))

\* The index lifespan derives from a cached matrix.
RECURSIVE IndexTechs(_, _, _)
IndexTechs(index, techs, i) ==
    IF i > Len(techs) THEN index
    ELSE IndexTechs(
            BuildIndex(DictSet(index, Lower(techs[i].id), techs[i]),
                       Get(techs[i], "subtechniques", <<>>), 1),
            techs, i + 1)

RECURSIVE RebuildIndex(_, _, _)
RebuildIndex(index, lists, i) ==
    IF i > Len(lists) THEN index
    ELSE RebuildIndex(IndexTechs(index, lists[i], 1), lists, i + 1)

\* ------------------------------------------------------------ bundles

\* What download_matrix can return.  None: a network error, a status other
\* than 200 or a body that is not JSON.  The others are the parsed body.
S_d == <<100>>  \* "d"

S_u == <<117>>  \* "u"

S_Win == <<87, 105, 110>>  \* "Win"

S_mitre_attack == <<109, 105, 116, 114, 101, 45, 97, 116, 116, 97, 99, 107>>

S_initial_access ==  \* "initial-access"
    <<105, 110, 105, 116, 105, 97, 108, 45, 97, 99, 99, 101, 115, 115>>

S_execution == <<101, 120, 101, 99, 117, 116, 105, 111, 110>>  \* "execution"

T1566 == <<84, 49, 53, 54, 54>>

T1566_001 == <<84, 49, 53, 54, 54, 46, 48, 48, 49>>

S0154 == <<83, 48, 49, 53, 52>>

\* One tactic, one technique under it, one sub-technique of the technique.
Bundle1 ==
    [objects |-> <<
        [type |-> "x-mitre-tactic", id |-> <<116, 97>>,
         name |-> <<73, 110, 105, 116, 105, 97, 108, 32, 65, 99, 99, 101, 115, 115>>,
         description |-> S_d, x_mitre_shortname |-> S_initial_access],
        [type |-> "attack-pattern", id |-> <<97, 50>>,
         name |-> <<65, 116, 116>>, x_mitre_is_subtechnique |-> TRUE,
         kill_chain_phases |-> <<[phase_name |-> S_initial_access]>>,
         external_references |->
            <<[source_name |-> S_mitre_attack, external_id |-> T1566_001]>>],
        [type |-> "attack-pattern", id |-> <<97, 49>>,
         name |-> <<80, 104, 105, 115, 104>>, description |-> S_d,
         x_mitre_platforms |-> <<S_Win>>,
         kill_chain_phases |-> <<[phase_name |-> S_initial_access]>>,
         external_references |->
            <<[source_name |-> S_mitre_attack, external_id |-> T1566, url |-> S_u]>>]
    >>]

\* One tactic, one technique under it, and a record whose id is not a T id.
Bundle2 ==
    [objects |-> <<
        [type |-> "attack-pattern", id |-> <<97, 51>>,
         name |-> <<83, 104, 101, 108, 108>>, x_mitre_detection |-> S_d,
         kill_chain_phases |-> <<[phase_name |-> S_execution]>>,
         external_references |->
            <<[source_name |-> <<99, 97, 112, 101, 99>>, external_id |-> <<120>>],
              [source_name |-> S_mitre_attack, external_id |-> <<84, 49, 48, 53, 57>>]>>],
        [type |-> "x-mitre-tactic", id |-> <<101, 120>>,
         name |-> <<69, 120, 101, 99, 117, 116, 105, 111, 110>>],
        [type |-> "attack-pattern", id |-> <<97, 52>>,
         external_references |->
            <<[source_name |-> S_mitre_attack, external_id |-> S0154]>>]
    >>]

IsNone(x) == "none" \in DOMAIN x

\* "if x:" for x a dict or None.
Truthy(x) == ~IsNone(x) /\ DOMAIN x # {}

\* What download_matrix() can return: None ("none": a network error, a
\* status other than 200, a body that is not JSON), or the parsed body;
\* "bad" is a body whose "objects" holds something that is not an object.
FetchResults == {"none", "bad", "b1", "b2"}

download_matrix(result) ==
    CASE result = "b1" -> Bundle1
      [] result = "b2" -> Bundle2
      [] result = "bad" -> [objects |-> <<[notdict |-> TRUE]>>]
      [] OTHER -> NoData

\* ------------------------------------------------------------ bounds

\* The longest "objects" list drawn from the pool of records.
MaxObjects == 3

\* How many times the clock advances.
MaxTicks == 1

\* The refresh counter the model stops at.
MaxUpdates == 2

\* How many refresh requests are open at once.
MaxManual == 2

\* The largest limit a search is sent with (the handler takes 1 to 100).
MaxLimit == 2

\* A write that stops early is modelled at its first CutWindow + 1 and its
\* last CutWindow + 1 tokens.
CutWindow == 0

\* ------------------------------------------------------------ state

UPDATE_INTERVALS ==
    [n \in {"1_hour", "6_hours", "12_hours", "24_hours", "7_days"} |->
        CASE n = "1_hour" -> 3600
          [] n = "6_hours" -> 21600
          [] n = "12_hours" -> 43200
          [] n = "24_hours" -> 86400
          [] OTHER -> 604800]

\* AppState.update_interval as the class sets it.
DefaultInterval == UPDATE_INTERVALS["24_hours"]

\* The clock advances two days at a time.
TickSeconds == 2 * UPDATE_INTERVALS["24_hours"]

\* The names a client sends to set_update_interval: one the table holds and
\* one it does not.
IntervalNames == {"1_hour", "2_hours"}

VARIABLES
    proc,             \* lifespan: "down", "startup_fetch", "serving", "failed"
    matrix_data,      \* AppState.matrix_data
    technique_index,  \* AppState.technique_index
    last_update,      \* AppState.last_update
    update_interval,  \* AppState.update_interval
    is_updating,      \* AppState.is_updating
    update_count,     \* AppState.update_count
    timer,            \* update_matrix_task: where it is, and the sleep it asked for
    manual,           \* how many refresh_matrix calls await download_matrix
    response,         \* the status of the last POST call answered, 0: none yet
    disk,             \* the two cache files
    now,              \* datetime.now(), in seconds
    log,              \* the last line the refresh pipeline logged
    raw_data,         \* the body a caller hands to parse_matrix, None: not kept
    parser            \* the MITREATTACKParser of the script's main(), and where main is

vars ==
    <<proc, matrix_data, technique_index, last_update, update_interval,
      is_updating, update_count, timer, manual, response, disk, now, log,
      raw_data, parser>>

NoTimer == [pc |-> "none", sleep_for |-> 0]

\* No script running.
NoParser == [pc |-> "none"]

\* A faulty variant: the loop always sleeps for the interval AppState
\* starts with.
Sleeping_default(interval) == [pc |-> "sleep", sleep_for |-> UPDATE_INTERVALS["24_hours"]]

\* await asyncio.sleep(app.state.state.update_interval)
Sleeping(interval) == [pc |-> "sleep", sleep_for |-> interval]

\* A process that is not running has no memory: the values AppState() gives.
Down ==
    /\ proc' = "down"
    /\ matrix_data' = NoData
    /\ technique_index' = <<>>
    /\ last_update' = NoTime
    /\ update_interval' = DefaultInterval
    /\ is_updating' = FALSE
    /\ update_count' = 0
    /\ timer' = NoTimer
    /\ manual' = 0
    /\ response' = 0
    /\ log' = "none"

Init ==
    /\ proc = "down"
    /\ matrix_data = NoData
    /\ technique_index = <<>>
    /\ last_update = NoTime
    /\ update_interval = DefaultInterval
    /\ is_updating = FALSE
    /\ update_count = 0
    /\ timer = NoTimer
    /\ manual = 0
    /\ response = 0
    /\ disk = [data |-> NoFile, meta |-> NoFile]
    /\ now = 0
    /\ log = "none"
    /\ raw_data = NoData
    /\ parser = NoParser

\* The datasets of the bodies, computed once.
ParsedBodies ==
    [result \in FetchResults |->
        IF Truthy(download_matrix(result)) THEN parse_matrix(download_matrix(result))
        ELSE NoData]

\* download_matrix() and parse_matrix() as the three callers chain them:
\* "if raw_data: parsed_data = parse_matrix(raw_data); if parsed_data:".
Parsed(result) == ParsedBodies[result]

\* The texts json.dump writes for the datasets, computed once.
DataTexts == [result \in {"b1", "b2"} |-> DataText(Parsed(result))]

\* The save points the model draws from: the first and the last cuts.
Cut(len) ==
    {k \in 0..CutWindow : k < len} \cup {k \in (len - 1 - CutWindow)..(len - 1) : k >= 0}

\* Where save_to_cache can end for this result (nowhere but at its end when
\* it is not called).
SaveStops(result) ==
    IF result \notin DOMAIN DataTexts THEN {[at |-> "done", k |-> 0]}
    ELSE {[at |-> "open_data", k |-> 0], [at |-> "open_meta", k |-> 0],
          [at |-> "done", k |-> 0]}
         \cup {[at |-> "data", k |-> k] : k \in Cut(Len(DataTexts[result]))}
         \cup {[at |-> "meta", k |-> k] : k \in Cut(Len(MetaText(0, 0)))}

SaveDone == [at |-> "done", k |-> 0]

\* What the pipeline logged last.
LogOf(result, p) ==
    IF ~Truthy(download_matrix(result)) THEN "download_error"
    ELSE IF ~Truthy(Parsed(result)) THEN "parse_error"
    ELSE IF p = SaveDone THEN "saved" ELSE "save_error"

\* ------------------------------------------------------------ lifespan

\* lifespan, to its first await or to its yield.  "raised" is a
\* load_from_cache that lets its exception out.
Startup ==
    /\ proc = "down"
    /\ \E cached \in {load_from_cache(disk)} :
           IF "raised" \in DOMAIN cached
           THEN /\ proc' = "failed"
                /\ UNCHANGED <<matrix_data, technique_index, last_update, timer>>
           ELSE IF Truthy(cached)
           THEN /\ matrix_data' = cached
                /\ last_update' = now
                /\ technique_index' =
                       RebuildIndex(<<>>, DictValues(Get(cached, "matrix", <<>>)), 1)
                /\ timer' = Sleeping(DefaultInterval)
                /\ proc' = "serving"
           ELSE /\ proc' = "startup_fetch"
                /\ UNCHANGED <<matrix_data, technique_index, last_update, timer>>
    /\ update_interval' = DefaultInterval
    /\ is_updating' = FALSE
    /\ update_count' = 0
    /\ UNCHANGED <<manual, response, disk, now, log, raw_data, parser>>

\* The else branch of lifespan after download_matrix returned, with
\* save_to_cache ending at p (its exception is caught inside it).
lifespan_fetch(parsed_data, p) ==
    IF Truthy(parsed_data)
    THEN [matrix_data     |-> parsed_data,
          technique_index |-> Get(parsed_data, "technique_index", <<>>),
          last_update     |-> now,
          disk            |-> save_to_cache(disk, parsed_data, now, update_interval, p)]
    ELSE [matrix_data     |-> matrix_data,
          technique_index |-> technique_index,
          last_update     |-> last_update,
          disk            |-> disk]

StartupFetchDone ==
    /\ proc = "startup_fetch"
    /\ timer' = Sleeping(update_interval)
    /\ proc' = "serving"
    /\ UNCHANGED <<update_interval, is_updating, update_count, manual, response, now,
                   raw_data, parser>>
    /\ \E result \in FetchResults : \E p \in SaveStops(result) :
         /\ log' = LogOf(result, p)
         /\ \E r \in {lifespan_fetch(Parsed(result), p)} :
                /\ matrix_data' = r.matrix_data
                /\ technique_index' = r.technique_index
                /\ last_update' = r.last_update
                /\ disk' = r.disk

\* ------------------------------------------------------------ update_matrix_task

\* The sleep ends: "if not is_updating" starts a refresh, else the loop
\* goes back to sleep.
update_matrix_task_wake ==
    IF ~is_updating
    THEN [is_updating |-> TRUE, timer |-> [timer EXCEPT !.pc = "fetch"], log |-> "started"]
    ELSE [is_updating |-> is_updating, timer |-> Sleeping(update_interval), log |-> log]

TimerWake ==
    /\ proc = "serving"
    /\ timer.pc = "sleep"
    /\ update_count < MaxUpdates
    /\ is_updating' = update_matrix_task_wake.is_updating
    /\ timer' = update_matrix_task_wake.timer
    /\ log' = update_matrix_task_wake.log
    /\ UNCHANGED <<proc, matrix_data, technique_index, last_update, update_interval,
                   update_count, manual, response, disk, now, raw_data, parser>>

\* A faulty variant: the new matrix is installed and the index is left for
\* later.
update_matrix_task_torn(parsed_data, p) ==
    IF Truthy(parsed_data)
    THEN [matrix_data     |-> parsed_data,
          technique_index |-> technique_index,
          last_update     |-> now,
          update_count    |-> update_count + 1,
          disk            |-> save_to_cache(disk, parsed_data, now, update_interval, p),
          is_updating     |-> FALSE]
    ELSE [matrix_data     |-> matrix_data,
          technique_index |-> technique_index,
          last_update     |-> last_update,
          update_count    |-> update_count,
          disk            |-> disk,
          is_updating     |-> FALSE]

\* A faulty variant: the timer's refresh does not count itself.
update_matrix_task_uncounted(parsed_data, p) ==
    IF Truthy(parsed_data)
    THEN [matrix_data     |-> parsed_data,
          technique_index |-> Get(parsed_data, "technique_index", <<>>),
          last_update     |-> now,
          update_count    |-> update_count,
          disk            |-> save_to_cache(disk, parsed_data, now, update_interval, p),
          is_updating     |-> FALSE]
    ELSE [matrix_data     |-> matrix_data,
          technique_index |-> technique_index,
          last_update     |-> last_update,
          update_count    |-> update_count,
          disk            |-> disk,
          is_updating     |-> FALSE]

\* The loop body after download_matrix returned, to the next sleep.
update_matrix_task(parsed_data, p) ==
    IF Truthy(parsed_data)
    THEN [matrix_data     |-> parsed_data,
          technique_index |-> Get(parsed_data, "technique_index", <<>>),
          last_update     |-> now,
          update_count    |-> update_count + 1,
          disk            |-> save_to_cache(disk, parsed_data, now, update_interval, p),
          is_updating     |-> FALSE]
    ELSE [matrix_data     |-> matrix_data,
          technique_index |-> technique_index,
          last_update     |-> last_update,
          update_count    |-> update_count,
          disk            |-> disk,
          is_updating     |-> FALSE]

TimerFetchDone ==
    /\ proc = "serving"
    /\ timer.pc = "fetch"
    /\ timer' = Sleeping(update_interval)
    /\ UNCHANGED <<proc, update_interval, manual, response, now, raw_data, parser>>
    /\ \E result \in FetchResults : \E p \in SaveStops(result) :
         /\ log' = LogOf(result, p)
         /\ \E r \in {update_matrix_task(Parsed(result), p)} :
                /\ matrix_data' = r.matrix_data
                /\ technique_index' = r.technique_index
                /\ last_update' = r.last_update
                /\ update_count' = r.update_count
                /\ disk' = r.disk
                /\ is_updating' = r.is_updating

\* ------------------------------------------------------------ refresh_matrix

\* A faulty variant: the handler without its "if is_updating" check.
refresh_matrix_enter_unguarded ==
    [is_updating |-> TRUE, manual |-> manual + 1, status |-> 0, log |-> "started"]

\* POST /api/matrix/refresh, to its await: 429, or the start of a refresh.
refresh_matrix_enter ==
    IF is_updating
    THEN [is_updating |-> is_updating, manual |-> manual, status |-> 429, log |-> log]
    ELSE [is_updating |-> TRUE, manual |-> manual + 1, status |-> 0, log |-> "started"]

ManualRequest ==
    /\ proc = "serving"
    /\ manual < MaxManual
    /\ update_count < MaxUpdates
    /\ is_updating' = refresh_matrix_enter.is_updating
    /\ manual' = refresh_matrix_enter.manual
    /\ response' = refresh_matrix_enter.status
    /\ log' = refresh_matrix_enter.log
    /\ UNCHANGED <<proc, matrix_data, technique_index, last_update, update_interval,
                   update_count, timer, disk, now, raw_data, parser>>

\* A faulty variant: the timestamp and the counter are written before the
\* result is looked at.
refresh_matrix_counts_failure(parsed_data, p) ==
    IF Truthy(parsed_data)
    THEN [matrix_data     |-> parsed_data,
          technique_index |-> Get(parsed_data, "technique_index", <<>>),
          last_update     |-> now,
          update_count    |-> update_count + 1,
          disk            |-> save_to_cache(disk, parsed_data, now, update_interval, p),
          status          |-> 200,
          is_updating     |-> FALSE]
    ELSE [matrix_data     |-> matrix_data,
          technique_index |-> technique_index,
          last_update     |-> now,
          update_count    |-> update_count + 1,
          disk            |-> disk,
          status          |-> 500,
          is_updating     |-> FALSE]

\* A faulty variant: is_updating is cleared on the success path only (no
\* finally).
refresh_matrix_no_finally(parsed_data, p) ==
    IF Truthy(parsed_data)
    THEN [matrix_data     |-> parsed_data,
          technique_index |-> Get(parsed_data, "technique_index", <<>>),
          last_update     |-> now,
          update_count    |-> update_count + 1,
          disk            |-> save_to_cache(disk, parsed_data, now, update_interval, p),
          status          |-> 200,
          is_updating     |-> FALSE]
    ELSE [matrix_data     |-> matrix_data,
          technique_index |-> technique_index,
          last_update     |-> last_update,
          update_count    |-> update_count,
          disk            |-> disk,
          status          |-> 500,
          is_updating     |-> TRUE]

\* A faulty variant: what parse_matrix returned is installed without the
\* "if parsed_data" check, None too.
refresh_matrix_unchecked(parsed_data, p) ==
    IF Truthy(parsed_data)
    THEN [matrix_data     |-> parsed_data,
          technique_index |-> Get(parsed_data, "technique_index", <<>>),
          last_update     |-> now,
          update_count    |-> update_count + 1,
          disk            |-> save_to_cache(disk, parsed_data, now, update_interval, p),
          status          |-> 200,
          is_updating     |-> FALSE]
    ELSE [matrix_data     |-> NoData,
          technique_index |-> <<>>,
          last_update     |-> last_update,
          update_count    |-> update_count,
          disk            |-> disk,
          status          |-> 500,
          is_updating     |-> FALSE]

\* The handler after download_matrix returned, through its finally.
refresh_matrix(parsed_data, p) ==
    IF Truthy(parsed_data)
    THEN [matrix_data     |-> parsed_data,
          technique_index |-> Get(parsed_data, "technique_index", <<>>),
          last_update     |-> now,
          update_count    |-> update_count + 1,
          disk            |-> save_to_cache(disk, parsed_data, now, update_interval, p),
          status          |-> 200,
          is_updating     |-> FALSE]
    ELSE [matrix_data     |-> matrix_data,
          technique_index |-> technique_index,
          last_update     |-> last_update,
          update_count    |-> update_count,
          disk            |-> disk,
          status          |-> 500,
          is_updating     |-> FALSE]

ManualFetchDone ==
    /\ proc = "serving"
    /\ manual > 0
    /\ manual' = manual - 1
    /\ UNCHANGED <<proc, update_interval, timer, now, raw_data, parser>>
    /\ \E result \in FetchResults : \E p \in SaveStops(result) :
         /\ log' = LogOf(result, p)
         /\ \E r \in {refresh_matrix(Parsed(result), p)} :
                /\ matrix_data' = r.matrix_data
                /\ technique_index' = r.technique_index
                /\ last_update' = r.last_update
                /\ update_count' = r.update_count
                /\ disk' = r.disk
                /\ is_updating' = r.is_updating
                /\ response' = r.status

\* ------------------------------------------------------------ the rest

\* A faulty variant: the handler without its "if not matrix_data" check.
get_matrix_unguarded == [status |-> 200, body |-> matrix_data]

\* GET /api/matrix.  Every dataset query starts with the same check.
get_matrix ==
    IF ~Truthy(matrix_data) THEN [status |-> 503, body |-> NoData]
    ELSE [status |-> 200, body |-> matrix_data]

\* The answers of the linear scan of get_technique.
NotFound == [status |-> 404, body |-> NoData]

Found(rec) == [status |-> 200, body |-> rec]

\* The position of the first sub-technique whose id.upper() is search_id, 0
\* when there is none.
RECURSIVE FindSub(_, _, _)
FindSub(subs, k, search_id) ==
    IF k > Len(subs) THEN 0
    ELSE IF Upper(subs[k].id) = search_id THEN k
    ELSE FindSub(subs, k + 1, search_id)

\* for tech in techniques: the technique, then its sub-techniques.
RECURSIVE ScanTechs(_, _, _)
ScanTechs(techs, j, search_id) ==
    IF j > Len(techs) THEN NotFound
    ELSE IF Upper(techs[j].id) = search_id THEN Found(techs[j])
    ELSE IF FindSub(Get(techs[j], "subtechniques", <<>>), 1, search_id) # 0
         THEN Found(techs[j].subtechniques[
                        FindSub(techs[j].subtechniques, 1, search_id)])
         ELSE ScanTechs(techs, j + 1, search_id)

\* for _, techniques in matrix.items()
RECURSIVE ScanMatrix(_, _, _)
ScanMatrix(lists, i, search_id) ==
    IF i > Len(lists) THEN NotFound
    ELSE IF ScanTechs(lists[i], 1, search_id).status = 200
         THEN ScanTechs(lists[i], 1, search_id)
         ELSE ScanMatrix(lists, i + 1, search_id)

\* GET /api/matrix/technique/{technique_id}: search_id is the id in upper
\* case; the index is asked for that key, then the matrix is scanned.
get_technique(technique_id) ==
    IF ~Truthy(matrix_data) THEN [status |-> 503, body |-> NoData]
    ELSE IF DictHas(technique_index, Upper(technique_id))
         THEN Found(DictGet(technique_index, Upper(technique_id)))
         ELSE ScanMatrix(DictValues(Get(matrix_data, "matrix", <<>>)), 1,
                         Upper(technique_id))

\* UPDATE_INTERVALS.items(), in the order of the dict literal.
IntervalOrder == <<"1_hour", "6_hours", "12_hours", "24_hours", "7_days">>

\* next((k for k, v in UPDATE_INTERVALS.items() if v == seconds), "24_hours")
RECURSIVE IntervalStr(_, _)
IntervalStr(i, seconds) ==
    IF i > Len(IntervalOrder) THEN "24_hours"
    ELSE IF UPDATE_INTERVALS[IntervalOrder[i]] = seconds THEN IntervalOrder[i]
    ELSE IntervalStr(i + 1, seconds)

\* GET /api/statistics.
get_statistics ==
    IF ~Truthy(matrix_data) THEN [status |-> 503]
    ELSE [status              |-> 200,
          total_tactics       |-> Get(Get(matrix_data, "statistics", <<>>),
                                      "total_tactics", 0),
          total_techniques    |-> Get(Get(matrix_data, "statistics", <<>>),
                                      "total_techniques", 0),
          total_subtechniques |-> Get(Get(matrix_data, "statistics", <<>>),
                                      "total_subtechniques", 0),
          last_update         |-> last_update,
          update_interval     |-> IntervalStr(1, update_interval),
          is_updating         |-> is_updating,
          update_count        |-> update_count]

\* q in s, for two str.
Contains(s, q) == \E i \in 0..(Len(s) - Len(q)) : SubSeq(s, i + 1, i + Len(q)) = q

\* The match test of search_techniques, the same for a technique and for a
\* sub-technique.
Matches(query, rec) ==
    \/ Contains(Lower(rec.name), query)
    \/ Contains(Lower(rec.id), query)
    \/ Contains(Lower(Get(rec, "description", <<>>)), query)
    \/ \E k \in 1..Len(Get(rec, "platforms", <<>>)) :
          Contains(Lower(rec.platforms[k]), query)

\* for sub in technique.get("subtechniques", []): every match is appended.
RECURSIVE SearchSubs(_, _, _, _, _)
SearchSubs(results, tactic, subs, k, query) ==
    IF k > Len(subs) THEN results
    ELSE SearchSubs(IF Matches(query, subs[k])
                    THEN Append(results, [tactic |-> tactic, technique |-> subs[k]])
                    ELSE results,
                    tactic, subs, k + 1, query)

\* One technique of the inner loop: the technique itself, then its
\* sub-techniques when the results are still fewer than limit.
SearchTech(results, tactic, tech, query) ==
    IF Matches(query, tech)
    THEN Append(results, [tactic |-> tactic, technique |-> tech])
    ELSE results

SearchTechAndSubs(results, tactic, tech, query, limit) ==
    IF Len(SearchTech(results, tactic, tech, query)) < limit
    THEN SearchSubs(SearchTech(results, tactic, tech, query), tactic,
                    Get(tech, "subtechniques", <<>>), 1, query)
    ELSE SearchTech(results, tactic, tech, query)

\* for technique in techniques, with its break.
RECURSIVE SearchTechs(_, _, _, _, _, _)
SearchTechs(results, tactic, techs, j, query, limit) ==
    IF j > Len(techs) \/ (j > 1 /\ Len(results) >= limit) THEN results
    ELSE SearchTechs(SearchTechAndSubs(results, tactic, techs[j], query, limit),
                     tactic, techs, j + 1, query, limit)

\* for tactic, techniques in matrix.items(), with its break.
RECURSIVE SearchMatrix(_, _, _, _, _)
SearchMatrix(results, matrix, i, query, limit) ==
    IF i > Len(matrix) \/ (i > 1 /\ Len(results) >= limit) THEN results
    ELSE SearchMatrix(SearchTechs(results, matrix[i][1], matrix[i][2], 1, query, limit),
                      matrix, i + 1, query, limit)

\* results[:limit]
Slice(results, limit) == SubSeq(results, 1, IF Len(results) < limit THEN Len(results) ELSE limit)

\* The queries a client sends: "phish", "WIN", "t1", "zz" and "T1566.001".
SearchQueries ==
    { <<112, 104, 105, 115, 104>>, <<87, 73, 78>>, <<116, 49>>, <<122, 122>>,
      T1566_001 }

\* A faulty variant: limit is ignored, in the loops and at the end.
search_techniques_unlimited(q, limit) ==
    IF ~Truthy(matrix_data) THEN [status |-> 503, count |-> 0, results |-> <<>>]
    ELSE [status  |-> 200,
          count   |-> Len(SearchMatrix(<<>>, Get(matrix_data, "matrix", <<>>), 1,
                                       Lower(q), limit + 1000)),
          results |-> SearchMatrix(<<>>, Get(matrix_data, "matrix", <<>>), 1,
                                   Lower(q), limit + 1000)]

\* GET /api/search?q=...&limit=...
search_techniques(q, limit) ==
    IF ~Truthy(matrix_data) THEN [status |-> 503, count |-> 0, results |-> <<>>]
    ELSE [status  |-> 200,
          count   |-> Len(SearchMatrix(<<>>, Get(matrix_data, "matrix", <<>>), 1,
                                       Lower(q), limit)),
          results |-> Slice(SearchMatrix(<<>>, Get(matrix_data, "matrix", <<>>), 1,
                                         Lower(q), limit), limit)]

\* A faulty variant: the name is not validated, an unknown one sets 0.
set_update_interval_unchecked(name) ==
    IF name \notin DOMAIN UPDATE_INTERVALS THEN 0
    ELSE UPDATE_INTERVALS[name]

\* POST /api/settings/update-interval; a name outside UPDATE_INTERVALS is a 400.
set_update_interval(name) ==
    IF name \notin DOMAIN UPDATE_INTERVALS THEN update_interval
    ELSE UPDATE_INTERVALS[name]

SetInterval ==
    /\ proc = "serving"
    /\ \E name \in IntervalNames :
          /\ update_interval' = set_update_interval(name)
          /\ response' = IF name \notin DOMAIN UPDATE_INTERVALS THEN 400 ELSE 200
    /\ UNCHANGED <<proc, matrix_data, technique_index, last_update, is_updating,
                   update_count, timer, manual, disk, now, log, raw_data, parser>>

\* Time passes.
Tick ==
    /\ now < MaxTicks * TickSeconds
    /\ now' = now + TickSeconds
    /\ UNCHANGED <<proc, matrix_data, technique_index, last_update, update_interval,
                   is_updating, update_count, timer, manual, response, disk, log,
                   raw_data, parser>>

\* The process ends (shutdown or kill) outside save_to_cache.
Stop ==
    /\ proc # "down"
    /\ Down
    /\ UNCHANGED <<disk, now, raw_data, parser>>

\* The process is killed inside save_to_cache, at point p of the save that
\* the startup fetch, the timer or a manual refresh had reached.
CrashInSave ==
    /\ \/ proc = "startup_fetch"
       \/ proc = "serving" /\ timer.pc = "fetch"
       \/ proc = "serving" /\ manual > 0
    /\ \E result \in FetchResults :
         /\ Truthy(Parsed(result))
         /\ \E p \in SaveStops(result) \ {SaveDone} :
              disk' = save_to_cache(disk, Parsed(result), now, update_interval, p)
    /\ Down
    /\ UNCHANGED <<now, raw_data, parser>>

\* The refresh machine: start, timer, manual refresh, stop.
NextRefresh ==
    \/ Startup
    \/ StartupFetchDone
    \/ TimerWake
    \/ TimerFetchDone
    \/ ManualRequest
    \/ ManualFetchDone
    \/ Stop
    \/ CrashInSave

Next ==
    \/ NextRefresh
    \/ SetInterval
    \/ Tick

Spec == Init /\ [][Next]_vars

\* ------------------------------------------------------------ the cache alone

(* save_to_cache and load_from_cache on their own: the machine starts with  *)
(* a Dataset that parse_matrix returned for some bundle in matrix_data,     *)
(* saves it, and loads what was saved.                                      *)

\* A technique listed under two tactics, with two platforms and an empty
\* description.
ValidAccounts ==
    [type |-> "attack-pattern", id |-> <<97, 53>>,
     name |-> <<86, 97, 108, 105, 100>>, description |-> <<>>,
     x_mitre_platforms |-> <<S_Win, <<76, 105, 110, 117, 120>>>>,
     kill_chain_phases |->
        <<[phase_name |-> S_execution], [phase_name |-> S_initial_access]>>,
     external_references |->
        <<[source_name |-> S_mitre_attack,
           external_id |-> <<84, 49, 48, 55, 56>>, url |-> S_u]>>]

\* A second record, with its own STIX id, that carries the external id of
\* Bundle1's technique.
Spearphishing ==
    [type |-> "attack-pattern", id |-> <<97, 54>>,
     name |-> <<83, 112, 101, 97, 114>>,
     kill_chain_phases |-> <<[phase_name |-> S_initial_access]>>,
     external_references |->
        <<[source_name |-> S_mitre_attack, external_id |-> T1566]>>]

\* A technique whose kill-chain phases name the same phase in two kill
\* chains.
DriveBy ==
    [type |-> "attack-pattern", id |-> <<97, 55>>,
     name |-> <<68, 114, 105, 118, 101>>,
     kill_chain_phases |->
        <<[kill_chain_name |-> S_mitre_attack, phase_name |-> S_initial_access],
          [kill_chain_name |->
               <<109, 105, 116, 114, 101, 45, 109, 111, 98, 105, 108, 101, 45,
                 97, 116, 116, 97, 99, 107>>,  \* "mitre-mobile-attack"
           phase_name |-> S_initial_access]>>,
     external_references |->
        <<[source_name |-> S_mitre_attack, external_id |-> <<84, 49, 49, 56, 57>>]>>]

\* A technique whose phase name is the display name of Bundle1's tactic,
\* "Initial Access".
ExploitPublic ==
    [type |-> "attack-pattern", id |-> <<97, 56>>,
     name |-> <<69, 120, 112, 108, 111, 105, 116>>,
     kill_chain_phases |->
        <<[phase_name |->
               <<73, 110, 105, 116, 105, 97, 108, 32, 65, 99, 99, 101, 115, 115>>]>>,
     external_references |->
        <<[source_name |-> S_mitre_attack, external_id |-> <<84, 49, 49, 57, 48>>]>>]

\* A record whose ATT&CK reference carries "external_id": null.
NullId ==
    [type |-> "attack-pattern", id |-> <<97, 57>>,
     name |-> <<82, 101, 118, 111, 107, 101, 100>>,
     kill_chain_phases |-> <<[phase_name |-> S_initial_access]>>,
     external_references |->
        <<[source_name |-> S_mitre_attack, external_id |-> None]>>]

\* A record whose first reference, of the source "mitre-ics-attack", carries
\* the id "T0817", and whose second, of the source "MITRE-ATTACK", carries a
\* url and no external_id.
RemoteServices ==
    [type |-> "attack-pattern", id |-> <<97, 48>>,
     name |-> <<82, 101, 109, 111, 116, 101>>,
     kill_chain_phases |-> <<[phase_name |-> S_initial_access]>>,
     external_references |->
        <<[source_name |->
               <<109, 105, 116, 114, 101, 45, 105, 99, 115, 45, 97, 116, 116, 97,
                 99, 107>>,
           external_id |-> <<84, 48, 56, 49, 55>>],
          [source_name |-> <<77, 73, 84, 82, 69, 45, 65, 84, 84, 65, 67, 75>>,
           url |-> S_u]>>]

\* The records the bundles are made of: those of Bundle1 and Bundle2,
\* ValidAccounts, Spearphishing, DriveBy, ExploitPublic, NullId and
\* RemoteServices.
Pool ==
    {Bundle1.objects[i] : i \in 1..Len(Bundle1.objects)}
    \cup {Bundle2.objects[i] : i \in 1..Len(Bundle2.objects)}
    \cup {ValidAccounts, Spearphishing, DriveBy, ExploitPublic, NullId,
          RemoteServices}

\* The lists of up to n different records, in every order.
Arrangements(n) ==
    UNION {{s \in [1..k -> Pool] : \A i, j \in 1..k : i # j => s[i] # s[j]} :
                k \in 0..n}

\* Bundle1 with a second sub-technique of its technique.
Bundle3 ==
    [objects |-> Bundle1.objects \o
        <<[type |-> "attack-pattern", id |-> <<97, 98>>,
           name |-> <<76, 105, 110, 107>>, x_mitre_is_subtechnique |-> TRUE,
           kill_chain_phases |-> <<[phase_name |-> S_initial_access]>>,
           external_references |->
              <<[source_name |-> S_mitre_attack,
                 external_id |-> <<84, 49, 53, 54, 54, 46, 48, 48, 50>>]>>]>>]

\* The bundles parse_matrix is given: the lists drawn from the pool, and
\* Bundle3.
InputBundles == {[objects |-> s] : s \in Arrangements(MaxObjects)} \cup {Bundle3}

InitCache ==
    /\ proc = "down"
    /\ matrix_data \in {parse_matrix(b) : b \in InputBundles} \ {NoData}
    /\ technique_index = <<>>
    /\ last_update = NoTime
    /\ update_interval = DefaultInterval
    /\ is_updating = FALSE
    /\ update_count = 0
    /\ timer = NoTimer
    /\ manual = 0
    /\ response = 0
    /\ disk = [data |-> NoFile, meta |-> NoFile]
    /\ now = 0
    /\ log = "none"
    /\ raw_data = NoData
    /\ parser = NoParser

\* save_to_cache(data), run to its end.
CacheSave ==
    /\ log = "none"
    /\ disk' = save_to_cache(disk, matrix_data, now, update_interval, SaveDone)
    /\ log' = "saved"
    /\ UNCHANGED <<proc, matrix_data, technique_index, last_update, update_interval,
                   is_updating, update_count, timer, manual, response, now, raw_data, parser>>

\* load_from_cache().
CacheLoad ==
    /\ log = "saved"
    /\ matrix_data' = load_from_cache(disk)
    /\ log' = "loaded"
    /\ UNCHANGED <<proc, technique_index, last_update, update_interval, is_updating,
                   update_count, timer, manual, response, disk, now, raw_data, parser>>

SpecCache == InitCache /\ [][CacheSave \/ CacheLoad]_vars

\* A process that saved the Dataset parse_matrix returned is started again:
\* save_to_cache, and then lifespan, which reads the cache and derives the
\* index (or goes to its download when there is no file yet).
SpecRestart == InitCache /\ [][CacheSave \/ Startup]_vars

\* ------------------------------------------------------------ one bundle

(* parse_matrix and the read handlers on every bundle of InputBundles: the  *)
(* process serves with nothing loaded, and every download of a manual       *)
(* refresh returns the body raw_data.                                       *)

InitParse ==
    /\ proc = "serving"
    /\ matrix_data = NoData
    /\ technique_index = <<>>
    /\ last_update = NoTime
    /\ update_interval = DefaultInterval
    /\ is_updating = FALSE
    /\ update_count = 0
    /\ timer = Sleeping(DefaultInterval)
    /\ manual = 0
    /\ response = 0
    /\ disk = [data |-> NoFile, meta |-> NoFile]
    /\ now = 0
    /\ log = "none"
    /\ raw_data \in InputBundles
    /\ parser = NoParser

\* "if raw_data: parsed_data = parse_matrix(raw_data)" of refresh_matrix.
ParsedBundle(body) == IF Truthy(body) THEN parse_matrix(body) ELSE NoData

\* refresh_matrix after download_matrix returned raw_data, its save running
\* to its end.
ManualFetchedBundle ==
    /\ proc = "serving"
    /\ manual > 0
    /\ manual' = manual - 1
    /\ UNCHANGED <<proc, update_interval, timer, now, raw_data, parser>>
    /\ log' = IF Truthy(ParsedBundle(raw_data)) THEN "saved" ELSE "parse_error"
    /\ \E r \in {refresh_matrix(ParsedBundle(raw_data), SaveDone)} :
           /\ matrix_data' = r.matrix_data
           /\ technique_index' = r.technique_index
           /\ last_update' = r.last_update
           /\ update_count' = r.update_count
           /\ disk' = r.disk
           /\ is_updating' = r.is_updating
           /\ response' = r.status

SpecParse == InitParse /\ [][ManualRequest \/ ManualFetchedBundle]_vars

\* A valid bundle: the records parse_matrix retains carry pairwise different
\* external ids, and a technique's id has no ".".
Retained(body) ==
    DictValues(FirstPass(body).techniques) \o DictValues(FirstPass(body).subtechniques)

ValidBundle(body) ==
    /\ ~FirstPass(body).err
    /\ \A i, j \in 1..Len(Retained(body)) :
          i # j => Retained(body)[i].id # Retained(body)[j].id
    /\ \A i \in 1..Len(FirstPass(body).techniques) :
          \A c \in 1..Len(FirstPass(body).techniques[i][2].id) :
              FirstPass(body).techniques[i][2].id[c] # 46

SpecRefresh == Init /\ [][NextRefresh]_vars

\* The whole serving machine, with one more body a manual refresh can be
\* given: raw_data is a bundle without objects.
InitLoaded ==
    /\ proc = "down"
    /\ matrix_data = NoData
    /\ technique_index = <<>>
    /\ last_update = NoTime
    /\ update_interval = DefaultInterval
    /\ is_updating = FALSE
    /\ update_count = 0
    /\ timer = NoTimer
    /\ manual = 0
    /\ response = 0
    /\ disk = [data |-> NoFile, meta |-> NoFile]
    /\ now = 0
    /\ log = "none"
    /\ raw_data = [objects |-> <<>>]
    /\ parser = NoParser

SpecLoaded == InitLoaded /\ [][NextRefresh \/ SetInterval \/ ManualFetchedBundle]_vars

\* The refresh machine and the settings handler, the clock standing still.
SpecServe == Init /\ [][NextRefresh \/ SetInterval]_vars

\* The refresh machine with the fetches that end: download_matrix gives its
\* request a total timeout of 60 s and catches every exception, and what
\* follows it up to the next await is synchronous, so a refresh that
\* awaits its download is resumed.
SpecLive ==
    /\ Init
    /\ [][NextRefresh]_vars
    /\ WF_vars(StartupFetchDone \/ TimerFetchDone \/ ManualFetchDone)

\* ------------------------------------------------------------ the script

(* parsing_and_draw_matrix.py on its own: main() makes a MITREATTACKParser, *)
(* download_data() puts the body in parser.data, and parse_matrix() fills   *)
(* the parser's tactics, techniques, subtechniques and matrix.              *)

\* MITREATTACKParser(): the fields __init__ sets.
MITREATTACKParser ==
    [pc |-> "created", data |-> NoData, techniques |-> <<>>,
     subtechniques |-> <<>>, tactics |-> <<>>, matrix |-> <<>>]

\* The records the script's bundles are made of: those of Bundle1,
\* ValidAccounts, and a technique and a sub-technique that carry no
\* external references.
DrawPool ==
    {Bundle1.objects[i] : i \in 1..Len(Bundle1.objects)}
    \cup {ValidAccounts,
          [type |-> "attack-pattern", id |-> <<98, 49>>,
          name |-> <<68, 114, 97, 102, 116>>,
          kill_chain_phases |-> <<[phase_name |-> S_initial_access]>>],
          [type |-> "attack-pattern", id |-> <<98, 50>>,
          name |-> <<83, 117, 98>>, x_mitre_is_subtechnique |-> TRUE,
          kill_chain_phases |-> <<[phase_name |-> S_initial_access]>>]}

\* The bodies response.json() gives: every list of up to MaxObjects
\* different records, and a body without "objects".
DrawBodies ==
    {[objects |-> b] :
        b \in UNION {{b \in [1..k -> DrawPool] :
                         \A i, j \in 1..k : i # j => b[i] # b[j]} :
                     k \in 0..MaxObjects}}
    \cup {[type |-> "bundle"]}

\* obj.get('external_references', [{}])
DrawRefs(obj) == Get(obj, "external_references", << <<>> >>)

\* tech_data of the script's first loop.
DrawTechData(obj) ==
    [name            |-> Get(obj, "name", Unknown),
     description     |-> SubSeq(Get(obj, "description", <<>>), 1,
                                IF Len(Get(obj, "description", <<>>)) < 200
                                THEN Len(Get(obj, "description", <<>>)) ELSE 200),
     external_id     |-> Get(DrawRefs(obj)[1], "external_id", NA),
     tactics         |-> PhaseNames(Get(obj, "kill_chain_phases", <<>>)),
     platforms       |-> Get(obj, "x_mitre_platforms", <<>>),
     is_subtechnique |-> Get(obj, "x_mitre_is_subtechnique", FALSE)]

\* One iteration of the script's first loop; err is a raised exception (an
\* element that is not an object, an empty external_references list).
DrawPass1Step(st, obj) ==
    IF ~IsDict(obj) THEN [st EXCEPT !.err = TRUE]
    ELSE IF Get(obj, "type", "") = "x-mitre-tactic" THEN
        [st EXCEPT !.tactics =
            DictSet(@, Get(obj, "id", <<>>),
                    [name              |-> Get(obj, "name", Unknown),
                     description       |-> Get(obj, "description", <<>>),
                     x_mitre_shortname |-> Get(obj, "x_mitre_shortname", <<>>)])]
    ELSE IF Get(obj, "type", "") = "attack-pattern" THEN
        IF DrawRefs(obj) = <<>> THEN [st EXCEPT !.err = TRUE]
        ELSE IF Get(obj, "x_mitre_is_subtechnique", FALSE)
             THEN [st EXCEPT !.subtechniques =
                        DictSet(@, Get(obj, "id", <<>>), DrawTechData(obj))]
             ELSE [st EXCEPT !.techniques =
                        DictSet(@, Get(obj, "id", <<>>), DrawTechData(obj))]
    ELSE st

RECURSIVE DrawPass1(_, _, _)
DrawPass1(objects, i, st) ==
    IF i > Len(objects) \/ st.err THEN st
    ELSE DrawPass1(objects, i + 1, DrawPass1Step(st, objects[i]))

\* The sub-techniques the last loop appends to a technique, in the order of
\* self.subtechniques.
RECURSIVE DrawAttached(_, _, _)
DrawAttached(subs, i, tid) ==
    IF i > Len(subs) THEN <<>>
    ELSE IF StartsWith(subs[i].external_id, tid)
         THEN <<subs[i]>> \o DrawAttached(subs, i + 1, tid)
         ELSE DrawAttached(subs, i + 1, tid)

\* A technique after the last loop: the key 'subtechniques' is made at the
\* first sub-technique appended.
DrawWithSubs(technique, attached) ==
    IF attached = <<>> THEN technique
    ELSE [f \in DOMAIN technique \cup {"subtechniques"} |->
             IF f = "subtechniques" THEN attached ELSE technique[f]]

DrawLinked(techniques, subs) ==
    [i \in 1..Len(techniques) |->
        <<techniques[i][1],
          DrawWithSubs(techniques[i][2],
                       DrawAttached(subs, 1, techniques[i][2].external_id))>>]

\* self.matrix[tactic.lower()].append(technique), self.matrix a
\* defaultdict(list).
RECURSIVE DrawAppend(_, _, _, _)
DrawAppend(matrix, tactics, i, technique) ==
    IF i > Len(tactics) THEN matrix
    ELSE DrawAppend(
            DictSet(matrix, Lower(tactics[i]),
                    IF DictHas(matrix, Lower(tactics[i]))
                    THEN Append(DictGet(matrix, Lower(tactics[i])), technique)
                    ELSE <<technique>>),
            tactics, i + 1, technique)

RECURSIVE DrawMatrix(_, _, _)
DrawMatrix(techs, i, matrix) ==
    IF i > Len(techs) THEN matrix
    ELSE DrawMatrix(techs, i + 1, DrawAppend(matrix, techs[i].tactics, 1, techs[i]))

\* list.sort(key=lambda x: x['external_id']): stable.
RECURSIVE DrawInsert(_, _)
DrawInsert(sorted, x) ==
    IF sorted = <<>> THEN <<x>>
    ELSE IF StrLess(x.external_id, sorted[Len(sorted)].external_id)
         THEN Append(DrawInsert(SubSeq(sorted, 1, Len(sorted) - 1), x),
                     sorted[Len(sorted)])
         ELSE Append(sorted, x)

RECURSIVE DrawSort(_)
DrawSort(xs) ==
    IF xs = <<>> THEN <<>>
    ELSE DrawInsert(DrawSort(SubSeq(xs, 1, Len(xs) - 1)), xs[Len(xs)])

\* The comparisons that raise on an 'external_id' that is null: the sort of
\* a list of two or more, and startswith in the last loop.
DrawRaises(techs, subs, matrix) ==
    \/ \E i \in 1..Len(matrix) :
          /\ Len(matrix[i][2]) >= 2
          /\ \E j \in 1..Len(matrix[i][2]) : matrix[i][2][j].external_id = None
    \/ /\ techs # <<>>
       /\ subs # <<>>
       /\ \/ \E j \in 1..Len(techs) : techs[j].external_id = None
          \/ \E j \in 1..Len(subs) : subs[j].external_id = None

\* The parser after the loops that follow the first one.  The lists of
\* self.matrix hold the very dicts of self.techniques, so that the
\* sub-techniques appended last are seen through both.
DrawAfterPass1(self, st) ==
    IF st.err \/ DrawRaises(DictValues(st.techniques), DictValues(st.subtechniques),
                            DrawMatrix(DictValues(st.techniques), 1, self.matrix))
    THEN [self EXCEPT !.pc = "raised"]
    ELSE [pc            |-> "parsed",
          data          |-> self.data,
          tactics       |-> st.tactics,
          subtechniques |-> st.subtechniques,
          techniques    |-> DrawLinked(st.techniques, DictValues(st.subtechniques)),
          matrix        |->
              [i \in 1..Len(DrawMatrix(DictValues(st.techniques), 1, self.matrix)) |->
                  <<DrawMatrix(DictValues(st.techniques), 1, self.matrix)[i][1],
                    DrawSort(DrawMatrix(
                        DictValues(DrawLinked(st.techniques,
                                              DictValues(st.subtechniques))),
                        1, self.matrix)[i][2])>>]]

\* MITREATTACKParser.parse_matrix(self).
Parser_parse_matrix(self) ==
    IF ~Truthy(self.data) \/ "objects" \notin DOMAIN self.data
    THEN [self EXCEPT !.pc = "parsed"]
    ELSE DrawAfterPass1(self,
            DrawPass1(self.data.objects, 1,
                      [tactics |-> self.tactics, techniques |-> self.techniques,
                       subtechniques |-> self.subtechniques, err |-> FALSE]))

\* main(): parser = MITREATTACKParser(), and download_data(), which gives
\* the body or fails, main returning then.
DrawDownload ==
    /\ parser = NoParser
    /\ \/ \E body \in DrawBodies : parser' = [MITREATTACKParser EXCEPT !.pc = "downloaded",
                                                                      !.data = body]
       \/ parser' = [MITREATTACKParser EXCEPT !.pc = "ended"]
    /\ UNCHANGED <<proc, matrix_data, technique_index, last_update, update_interval,
                   is_updating, update_count, timer, manual, response, disk, now,
                   log, raw_data>>

\* main(): parser.parse_matrix().
DrawParse ==
    /\ parser.pc = "downloaded"
    /\ parser' = Parser_parse_matrix(parser)
    /\ UNCHANGED <<proc, matrix_data, technique_index, last_update, update_interval,
                   is_updating, update_count, timer, manual, response, disk, now,
                   log, raw_data>>

SpecDraw == Init /\ [][DrawDownload \/ DrawParse]_vars

\* ------------------------------------------------------------ properties

\* C1 - single-flight.  At most one refresh (the timer's or a manual one) is
\* between its fetch start and its return to Idle, and is_updating is TRUE
\* exactly while one is.  While a refresh is in flight no step starts a
\* fetch: a manual trigger answers 429 and changes nothing else (nothing is
\* queued), and a timer that wakes goes back to sleep.
C1_SingleFlight ==
    /\ [](/\ manual + (IF timer.pc = "fetch" THEN 1 ELSE 0) <= 1
          /\ is_updating <=> (manual + (IF timer.pc = "fetch" THEN 1 ELSE 0) = 1))
    /\ [][(is_updating /\ proc' = "serving") =>
            /\ manual' <= manual
            /\ (timer'.pc = "fetch" => timer.pc = "fetch")
            /\ (ManualRequest =>
                    /\ response' = 429
                    /\ UNCHANGED <<proc, matrix_data, technique_index, last_update,
                                   update_interval, is_updating, update_count, timer,
                                   manual, disk, now, log>>)
            /\ (TimerWake => timer'.pc = "sleep" /\ UNCHANGED <<is_updating, manual>>)]_vars

\* A manual trigger was answered 429 while the timer's refresh is in flight.
C1_Witness == response = 429 /\ is_updating /\ timer.pc = "fetch"

\* C2 - no torn dataset.  In every state a reader can run in, the index is
\* the one that belongs to the matrix: the technique_index of the same
\* parse_matrix result, or the index lifespan derived from the same cached
\* matrix; and a step that leaves a refresh in flight leaves both alone, so
\* a reader sees the previous pair until the new one is installed.
C2_NoTornDataset ==
    /\ [](IF IsNone(matrix_data) THEN technique_index = <<>>
          ELSE IF "technique_index" \in DOMAIN matrix_data
               THEN technique_index = matrix_data.technique_index
               ELSE technique_index =
                        RebuildIndex(<<>>, DictValues(matrix_data.matrix), 1))
    /\ [][(is_updating /\ is_updating') =>
              UNCHANGED <<matrix_data, technique_index>>]_vars

\* A dataset is installed by an earlier refresh and the next refresh is in
\* flight.
C2_Witness == update_count = 1 /\ is_updating /\ ~IsNone(matrix_data)

\* C3 - a refresh that fails at the fetch or at the normalize step.  The
\* step that ends such a refresh (the timer's or a manual one) clears
\* is_updating and leaves matrix_data, technique_index, last_update and
\* update_count as they are, a manual one answering 500; and no step that
\* leaves the refresh in flight changes the four, so they are what they
\* were when the refresh started.
C3_FailureLeavesState ==
    [][/\ (is_updating /\ log' \in {"download_error", "parse_error"}) =>
            /\ UNCHANGED <<matrix_data, technique_index, last_update, update_count>>
            /\ ~is_updating'
            /\ (manual' < manual => response' = 500)
       /\ (is_updating /\ is_updating') =>
            UNCHANGED <<matrix_data, technique_index, last_update, update_count>>]_vars

\* A manual refresh failed at the normalize step while a dataset is served.
C3_Witness ==
    log = "parse_error" /\ response = 500 /\ ~is_updating /\ ~IsNone(matrix_data)

\* C4 - a save that fails makes the refresh a failed one.  The step that
\* ends a refresh whose save_to_cache raised (at the data file or at the
\* metadata file) leaves matrix_data and update_count as they were.
C4_SaveFailureIsFailure ==
    [][(is_updating /\ log' = "save_error") =>
          UNCHANGED <<matrix_data, update_count>>]_vars

\* C5 - every refresh ends.  Whenever is_updating is TRUE it is FALSE again
\* later, whatever the fetch, the normalization or the save did; and in a
\* running process the timer loop is always at its sleep or in its own
\* refresh, so that after a refresh that failed the flag is clear and the
\* loop is at its sleep, where the next firing or a manual trigger can
\* start a refresh.
C5_RefreshEnds ==
    /\ is_updating ~> ~is_updating
    /\ [](proc = "serving" =>
            /\ timer.pc \in {"sleep", "fetch"}
            /\ (log \in {"download_error", "parse_error", "save_error"} =>
                    ~is_updating /\ timer.pc = "sleep"))

\* A manual refresh failed at its fetch, and the next refresh, started by
\* the timer, is in flight.
C5_Witness ==
    response = 500 /\ is_updating /\ timer.pc = "fetch" /\ update_count = 0

\* C6 - not loaded until the first refresh that succeeds.  A process that
\* started without a cache and whose startup fetch failed answers 503; a
\* serving process that answers 503 goes on answering 503 over every step
\* that is not the end of a successful refresh; the end of a successful
\* refresh makes it answer 200 with the Dataset of that refresh; and a
\* serving process that answers 200 never answers 503 again.
C6_NotLoadedUntilRefresh ==
    /\ []((proc = "serving" /\ last_update = NoTime) => get_matrix.status = 503)
    /\ [][(proc = "serving" /\ proc' = "serving") =>
            /\ (get_matrix.status = 503 /\ log' \notin {"saved", "save_error"}) =>
                    get_matrix' = [status |-> 503, body |-> NoData]
            /\ (get_matrix.status = 503 /\ log' \in {"saved", "save_error"}) =>
                    /\ get_matrix' = [status |-> 200, body |-> matrix_data']
                    /\ \E result \in FetchResults :
                          /\ Truthy(download_matrix(result))
                          /\ matrix_data' = parse_matrix(download_matrix(result))
            /\ get_matrix.status = 200 => get_matrix'.status = 200]_vars

\* The startup fetch failed, a manual refresh failed after it, and the
\* queries still answer 503.
C6_Witness ==
    proc = "serving" /\ get_matrix.status = 503 /\ response = 500 /\ update_count = 0

\* C7 - the cache at process start.  The step that starts the process
\* reads the cache: when the data file is absent or its text is not JSON,
\* the start does not fail and goes to its fetch with nothing installed;
\* when the file is there and is JSON, its Dataset is installed and the
\* process serves without a fetch.  The startup fetch, when it succeeds,
\* installs the parsed Dataset and, when its save ran to its end, leaves it
\* in the data file.
C7_StartupCache ==
    [][/\ (proc = "down" /\ proc' # "down") =>
            IF disk.data.exists /\ json_loads(disk.data.text).ok
            THEN /\ proc' = "serving"
                 /\ matrix_data' = FromJsonCache(json_loads(disk.data.text).v)
                 /\ log' = "none"
                 /\ disk' = disk
            ELSE /\ proc' = "startup_fetch"
                 /\ IsNone(matrix_data')
                 /\ disk' = disk
       /\ (proc = "startup_fetch" /\ proc' = "serving" /\ log' = "saved") =>
            /\ \E result \in FetchResults :
                  /\ Truthy(download_matrix(result))
                  /\ matrix_data' = parse_matrix(download_matrix(result))
            /\ disk'.data = File(DataText(matrix_data'))]_vars

\* The process started on a data file that is there and is not JSON, and
\* is at its startup fetch.
C7_Witness ==
    proc = "startup_fetch" /\ disk.data.exists /\ ~json_loads(disk.data.text).ok

\* C8 - a stale cache at startup.  When the process starts on a data file
\* that is there and is JSON, and whose metadata says it is stale, the
\* start goes to the fetch (the path of a scheduled refresh) and does not
\* serve the cached Dataset as it is.
C8_StaleCacheRefreshes ==
    [][(/\ proc = "down" /\ proc' # "down"
        /\ disk.data.exists /\ json_loads(disk.data.text).ok
        /\ disk.meta.exists /\ json_loads(disk.meta.text).ok
        /\ now - FromJson(json_loads(disk.meta.text).v).last_update
               > FromJson(json_loads(disk.meta.text).v).update_interval)
       => proc' = "startup_fetch"]_vars

\* C9 - cache round-trip.  For every Dataset that parse_matrix returns,
\* what load_from_cache returns after save_to_cache saved it is the Dataset
\* without its technique_index: the same tactics, the same matrix with its
\* techniques and sub-techniques in the same order, the same statistics,
\* and nothing else.
C9_RoundTrip ==
    [][(log = "saved" /\ log' = "loaded") =>
          matrix_data' = [tactics    |-> matrix_data.tactics,
                          matrix     |-> matrix_data.matrix,
                          statistics |-> matrix_data.statistics]]_vars

\* A Dataset with a technique that has a sub-technique went through the
\* cache.
C9_Witness ==
    /\ log = "loaded"
    /\ ~IsNone(matrix_data)
    /\ matrix_data.statistics.total_subtechniques > 0

\* C10 - a crash inside save_to_cache.  When the process dies in a save
\* that changed the files, the load of the next start either returns
\* nothing (the data file is not JSON), or the files are the complete new
\* record (the data file and the metadata file a save that ran to its end
\* leaves); the files are never an accepted record that differs from the one
\* before the save and from the new one.
C10_CrashSafeSave ==
    [][(proc # "down" /\ proc' = "down" /\ disk' # disk) =>
          \/ IsNone(load_from_cache(disk'))
          \/ \E result \in FetchResults :
                /\ Truthy(Parsed(result))
                /\ disk' = save_to_cache(disk, Parsed(result), now, update_interval,
                                         SaveDone)]_vars

\* C11 - Index/Matrix consistency.  In every state with a Dataset loaded
\* (installed by a refresh or read from the cache at startup), every
\* technique and every sub-technique of the Matrix is found in
\* technique_index under its lower-cased id, and the record found is the
\* record of the Matrix, field for field (a technique's with its
\* sub-technique list).
C11_IndexMatrixConsistent ==
    Truthy(matrix_data) =>
        \A i \in 1..Len(matrix_data.matrix) :
            \A j \in 1..Len(matrix_data.matrix[i][2]) :
                /\ DictHas(technique_index, Lower(matrix_data.matrix[i][2][j].id))
                /\ DictGet(technique_index, Lower(matrix_data.matrix[i][2][j].id))
                       = matrix_data.matrix[i][2][j]
                /\ \A k \in 1..Len(matrix_data.matrix[i][2][j].subtechniques) :
                      /\ DictHas(technique_index,
                                 Lower(matrix_data.matrix[i][2][j].subtechniques[k].id))
                      /\ DictGet(technique_index,
                                 Lower(matrix_data.matrix[i][2][j].subtechniques[k].id))
                             = matrix_data.matrix[i][2][j].subtechniques[k]

\* C12 - get_technique is case-insensitive, index first and then the
\* matrix.  With a Dataset loaded, a request for an id, in any spelling,
\* whose lower-cased form is a key of technique_index or which a technique or
\* sub-technique of the Matrix carries, is answered 200 with a record of
\* that id; and 404 is answered only for an id that is in neither.
C12_LookupByAnySpelling ==
    Truthy(matrix_data) =>
        \* "t1566", "T1566", "t1566.001", "T1078", "t1059" and "T9999"
        \A id \in { <<116, 49, 53, 54, 54>>, T1566,
                    <<116, 49, 53, 54, 54, 46, 48, 48, 49>>,
                    <<84, 49, 48, 55, 56>>, <<116, 49, 48, 53, 57>>,
                    <<84, 57, 57, 57, 57>> } :
            /\ (\/ DictHas(technique_index, Lower(id))
                \/ \E i \in 1..Len(matrix_data.matrix) :
                      \E j \in 1..Len(matrix_data.matrix[i][2]) :
                          \/ Lower(matrix_data.matrix[i][2][j].id) = Lower(id)
                          \/ \E k \in 1..Len(matrix_data.matrix[i][2][j].subtechniques) :
                                Lower(matrix_data.matrix[i][2][j].subtechniques[k].id)
                                    = Lower(id))
               => /\ get_technique(id).status = 200
                  /\ Lower(get_technique(id).body.id) = Lower(id)
            /\ get_technique(id).status \in {200, 404}

\* C13 - a sub-technique is attached to its technique, once.  After
\* parse_matrix ran on a valid bundle, whatever the order of its records:
\* for every retained technique and every retained sub-technique whose id
\* starts with the technique's id and ".", the technique_obj of that
\* technique holds the sub-technique exactly once and the technique_obj of
\* no other technique holds it; and so does every technique record of the
\* installed Matrix.
C13_SubAttachedOnce ==
    (log = "saved" /\ ValidBundle(raw_data)) =>
        \A techs \in {DictValues(FirstPass(raw_data).techniques)} :
        \A subs \in {DictValues(FirstPass(raw_data).subtechniques)} :
        \A t \in 1..Len(techs) : \A u \in 1..Len(subs) :
            StartsWith(subs[u].id, techs[t].id \o <<46>>) =>
                /\ \A t2 \in 1..Len(techs) :
                      \A list \in {TechniqueObj(techs[t2],
                                                FirstPass(raw_data).subtechniques).subtechniques} :
                          Cardinality({k \in 1..Len(list) : list[k].id = subs[u].id})
                              = IF t2 = t THEN 1 ELSE 0
                /\ \A i \in 1..Len(matrix_data.matrix) :
                      \A j \in 1..Len(matrix_data.matrix[i][2]) :
                      \A list \in {matrix_data.matrix[i][2][j].subtechniques} :
                          Cardinality({k \in 1..Len(list) : list[k].id = subs[u].id})
                              = IF matrix_data.matrix[i][2][j].id = techs[t].id
                                THEN 1 ELSE 0

\* A valid bundle whose first record is the sub-technique, the technique
\* coming after it, was parsed with a second technique, and the Matrix
\* holds the sub-technique.
C13_Witness ==
    /\ log = "saved"
    /\ ValidBundle(raw_data)
    /\ Len(raw_data.objects) >= 2
    /\ Get(raw_data.objects[1], "x_mitre_is_subtechnique", FALSE)
    /\ matrix_data.statistics.total_subtechniques = 1

\* C14 - ordering.  In every Dataset parse_matrix returned, the ids of every
\* tactic's technique list and of every technique's sub-technique list are
\* strictly ascending: each id is less than the next one, so that no list
\* holds an id twice.
C14_StrictlyAscending ==
    (log = "saved" /\ matrix_data = parse_matrix(raw_data)) =>
        \A i \in 1..Len(matrix_data.matrix) :
            /\ \A j \in 1..(Len(matrix_data.matrix[i][2]) - 1) :
                  StrLess(matrix_data.matrix[i][2][j].id,
                          matrix_data.matrix[i][2][j + 1].id)
            /\ \A j \in 1..Len(matrix_data.matrix[i][2]) :
                  \A k \in 1..(Len(matrix_data.matrix[i][2][j].subtechniques) - 1) :
                      StrLess(matrix_data.matrix[i][2][j].subtechniques[k].id,
                              matrix_data.matrix[i][2][j].subtechniques[k + 1].id)

\* C15 - a record without a T id is dropped.  After parse_matrix ran on a
\* bundle, for every attack-pattern record of the bundle none of whose
\* external references has an external_id that begins with "T" (so that no
\* id it can resolve to does): no technique and no sub-technique of the
\* Matrix carries one of its external ids, no key of the Index is one of
\* them lower-cased, total_techniques counts only the technique records
\* whose resolved id begins with "T", and every sub-technique that
\* total_subtechniques counts has an id that begins with "T".
C15_NonTDropped ==
    log = "saved" =>
        \A objects \in {raw_data.objects} :
        \A o \in 1..Len(objects) :
        \A refs \in {Get(objects[o], "external_references", <<>>)} :
            (/\ objects[o].type = "attack-pattern"
             /\ \A r \in 1..Len(refs) :
                   ~StartsWith(Get(refs[r], "external_id", NA), <<84>>)) =>
                /\ \A r \in 1..Len(refs) :
                      /\ ~DictHas(matrix_data.technique_index,
                                  Lower(Get(refs[r], "external_id", NA)))
                      /\ ~DictHas(technique_index, Lower(Get(refs[r], "external_id", NA)))
                      /\ \A i \in 1..Len(matrix_data.matrix) :
                          \A j \in 1..Len(matrix_data.matrix[i][2]) :
                            /\ matrix_data.matrix[i][2][j].id
                                    # Get(refs[r], "external_id", NA)
                            /\ \A k \in 1..Len(matrix_data.matrix[i][2][j].subtechniques) :
                                  matrix_data.matrix[i][2][j].subtechniques[k].id
                                      # Get(refs[r], "external_id", NA)
                /\ matrix_data.statistics.total_techniques =
                       Cardinality({objects[p].id : p \in
                           {p \in 1..Len(objects) :
                               /\ objects[p].type = "attack-pattern"
                               /\ ~Get(objects[p], "x_mitre_is_subtechnique", FALSE)
                               /\ StartsWith(TechData(objects[p]).id, <<84>>)}})
                /\ \A i \in 1..Len(matrix_data.matrix) :
                    \A j \in 1..Len(matrix_data.matrix[i][2]) :
                    \A k \in 1..Len(matrix_data.matrix[i][2][j].subtechniques) :
                        StartsWith(matrix_data.matrix[i][2][j].subtechniques[k].id, <<84>>)

\* A bundle with a record whose only external reference has the external
\* id "S0154", and with a technique that is retained under its tactic, was
\* parsed.
C15_Witness ==
    /\ log = "saved"
    /\ \E o \in 1..Len(raw_data.objects) :
          /\ raw_data.objects[o].type = "attack-pattern"
          /\ Len(raw_data.objects[o].external_references) = 1
          /\ raw_data.objects[o].external_references[1].external_id = S0154
    /\ matrix_data.statistics.total_techniques = 1
    /\ \E i \in 1..Len(matrix_data.matrix) : Len(matrix_data.matrix[i][2]) = 1

\* C16 - statistics.  In the Dataset parse_matrix returned for a bundle,
\* total_tactics is the number of tactics, total_techniques the number of
\* retained techniques, and total_subtechniques the sum of the lengths of
\* the sub-technique lists of the retained techniques, each technique
\* taken once, whether it is under several tactics, one or none.
C16_Statistics ==
    (log = "saved" /\ matrix_data = parse_matrix(raw_data)) =>
        \A techs \in {DictValues(FirstPass(raw_data).techniques)} :
        \A subs \in {FirstPass(raw_data).subtechniques} :
            /\ matrix_data.statistics.total_tactics = Len(matrix_data.tactics)
            /\ matrix_data.statistics.total_techniques = Len(techs)
            /\ matrix_data.statistics.total_subtechniques =
                   Cardinality({p \in (1..Len(techs)) \X (1..Len(subs)) :
                       p[2] <= Len(TechniqueObj(techs[p[1]], subs).subtechniques)})

\* C17 - search.  With a Dataset loaded, for every query and every limit,
\* search_techniques answers at most limit entries, and every entry it
\* answers is a technique of the Matrix, or a sub-technique of one, under
\* the tactic the entry names, such that the lower-cased query is a
\* substring of the lower-cased id, name, description or one of the
\* platform names of the record.
C17_SearchSound ==
    Truthy(matrix_data) =>
        \A q \in SearchQueries : \A limit \in 1..MaxLimit :
        \A results \in {search_techniques(q, limit).results} :
            /\ Len(results) <= limit
            /\ \A e \in 1..Len(results) :
                  /\ \E i \in 1..Len(matrix_data.matrix) :
                        /\ matrix_data.matrix[i][1] = results[e].tactic
                        /\ \E j \in 1..Len(matrix_data.matrix[i][2]) :
                              \/ matrix_data.matrix[i][2][j] = results[e].technique
                              \/ \E k \in 1..Len(matrix_data.matrix[i][2][j].subtechniques) :
                                    matrix_data.matrix[i][2][j].subtechniques[k]
                                        = results[e].technique
                  /\ \E f \in {Lower(results[e].technique.id),
                                Lower(results[e].technique.name),
                                Lower(results[e].technique.description)}
                            \cup {Lower(results[e].technique.platforms[n]) :
                                    n \in 1..Len(results[e].technique.platforms)} :
                        \E a \in 0..Len(f) :
                            /\ a + Len(q) <= Len(f)
                            /\ \A c \in 1..Len(q) : f[a + c] = LowerCh(q[c])

\* The Matrix holds more matches of "t1" than the limit 1 lets through, and
\* "WIN" finds a technique by its platform "Win".
C17_Witness ==
    /\ Truthy(matrix_data)
    /\ Len(search_techniques(<<116, 49>>, 1).results) = 1
    /\ Len(search_techniques(<<116, 49>>, 2).results) = 2
    /\ Len(search_techniques(<<87, 73, 78>>, 2).results) >= 1

\* C18 - the refresh interval.  A set_update_interval call with a name
\* outside the five of UPDATE_INTERVALS answers 400 and leaves
\* update_interval as it is; with one of the five it answers 200 and sets
\* update_interval to the seconds of that name, which get_statistics then
\* reports by that name.  In every state update_interval is one of the five
\* values, and get_statistics names the interval that is set.
C18_IntervalValidated ==
    /\ [](/\ \E n \in DOMAIN UPDATE_INTERVALS : update_interval = UPDATE_INTERVALS[n]
          /\ Truthy(matrix_data) =>
                /\ get_statistics.update_interval \in DOMAIN UPDATE_INTERVALS
                /\ UPDATE_INTERVALS[get_statistics.update_interval] = update_interval)
    /\ [][SetInterval =>
            \E name \in IntervalNames :
                IF name \in {"1_hour", "6_hours", "12_hours", "24_hours", "7_days"}
                THEN /\ response' = 200
                     /\ update_interval' = UPDATE_INTERVALS[name]
                     /\ Truthy(matrix_data') => get_statistics'.update_interval = name
                ELSE /\ response' = 400
                     /\ update_interval' = update_interval]_vars

\* With a Dataset loaded, "1_hour" was set and then a name outside the set
\* was refused.
C18_Witness ==
    /\ Truthy(matrix_data)
    /\ response = 400
    /\ update_interval = 3600
    /\ get_statistics.update_interval = "1_hour"

\* C20 - the refresh counter.  Over every step of a running process (a
\* timer firing, a manual trigger accepted or rejected, the end of a
\* refresh, an interval change): the step that ends a refresh, the timer's
\* or a manual one, with a new Dataset installed adds exactly one to
\* update_count, and every other step leaves it as it is; so it never
\* decreases.
C20_CounterMonotonic ==
    [][(proc = "serving" /\ proc' = "serving") =>
          IF is_updating /\ ~is_updating' /\ log' \in {"saved", "save_error"}
          THEN /\ update_count' = update_count + 1
               /\ \E result \in FetchResults :
                     /\ Truthy(download_matrix(result))
                     /\ matrix_data' = parse_matrix(download_matrix(result))
          ELSE /\ update_count' = update_count
               /\ update_count' >= 0]_vars

\* Two refreshes succeeded, and a set_update_interval call was refused
\* after them.
C20_Witness ==
    /\ update_count = 2
    /\ response = 400
    /\ log = "saved"
    /\ last_update # NoTime

\* C21 - tactic membership.  In the Dataset parse_matrix returned for a
\* bundle, every retained technique is held exactly once by the list of
\* every tactic slug that is among its lower-cased phase names, and by the
\* list of no other slug; the slugs of the Matrix are those of the tactic
\* records of the bundle, so that a phase name without a tactic record adds
\* nothing, and such a name does not make parse_matrix fail.
C21_OncePerDeclaredTactic ==
    (log \in {"saved", "parse_error"} /\ matrix_data = ParsedBundle(raw_data)) =>
        \A techs \in {DictValues(FirstPass(raw_data).techniques)} :
            /\ ~FirstPass(raw_data).err => Truthy(matrix_data)
            /\ Truthy(matrix_data) =>
                /\ {matrix_data.matrix[i][1] : i \in 1..Len(matrix_data.matrix)}
                       = {TacticSlug(raw_data.objects[o]) :
                             o \in {o \in 1..Len(raw_data.objects) :
                                       raw_data.objects[o].type = "x-mitre-tactic"}}
                /\ \A t \in 1..Len(techs) : \A i \in 1..Len(matrix_data.matrix) :
                      Cardinality({j \in 1..Len(matrix_data.matrix[i][2]) :
                                      matrix_data.matrix[i][2][j]
                                          = TechniqueObj(techs[t],
                                                FirstPass(raw_data).subtechniques)})
                          = IF \E p \in 1..Len(techs[t].tactics) :
                                   techs[t].tactics[p] = matrix_data.matrix[i][1]
                            THEN 1 ELSE 0

\* C22 - a sub-technique without its technique.  In the Dataset
\* parse_matrix returned for a bundle, a retained sub-technique whose id
\* starts with the id and "." of no retained technique (its technique was
\* dropped or is not in the bundle) is in the sub-technique list of no
\* technique, leaves total_subtechniques what it is for the bundle without
\* the record, and is under no key of the Index.
C22_OrphanSubNowhere ==
    (log = "saved" /\ matrix_data = parse_matrix(raw_data)) =>
        \A objects \in {raw_data.objects} :
        \A techs \in {DictValues(FirstPass(raw_data).techniques)} :
        \A o \in 1..Len(objects) :
            (/\ objects[o].type = "attack-pattern"
             /\ Get(objects[o], "x_mitre_is_subtechnique", FALSE)
             /\ StartsWith(TechData(objects[o]).id, <<84>>)
             /\ \A t \in 1..Len(techs) :
                   ~StartsWith(TechData(objects[o]).id, techs[t].id \o <<46>>)) =>
                /\ \A i \in 1..Len(matrix_data.matrix) :
                      \A j \in 1..Len(matrix_data.matrix[i][2]) :
                      \A k \in 1..Len(matrix_data.matrix[i][2][j].subtechniques) :
                          matrix_data.matrix[i][2][j].subtechniques[k].id
                              # TechData(objects[o]).id
                /\ matrix_data.statistics.total_subtechniques =
                       parse_matrix([objects |->
                           [k \in 1..(Len(objects) - 1) |->
                               IF k < o THEN objects[k] ELSE objects[k + 1]]]
                       ).statistics.total_subtechniques
                /\ \A e \in 1..Len(matrix_data.technique_index) :
                      /\ matrix_data.technique_index[e][1]
                             # Lower(TechData(objects[o]).id)
                      /\ matrix_data.technique_index[e][2].id
                             # TechData(objects[o]).id

\* C23 - dropping a record is not a failure.  After a refresh ran
\* parse_matrix on a bundle, for every attack-pattern record of the bundle
\* whose resolved id does not begin with "T" (no reference, no external_id,
\* a null external_id, another prefix): if parse_matrix returns a Dataset
\* for the bundle without the record, the refresh succeeded, and the Dataset
\* it installed is that one.
C23_DropIsNotFailure ==
    log \in {"saved", "parse_error"} =>
        \A objects \in {raw_data.objects} :
        \A o \in 1..Len(objects) :
            (/\ objects[o].type = "attack-pattern"
             /\ ~StartsWith(TechData(objects[o]).id, <<84>>)) =>
                \A rest \in {parse_matrix([objects |->
                                [k \in 1..(Len(objects) - 1) |->
                                    IF k < o THEN objects[k] ELSE objects[k + 1]]])} :
                    Truthy(rest) => (log = "saved" /\ matrix_data = rest)

\* C24 - the external id of a record.  After a refresh installed the
\* Dataset parse_matrix returned for a bundle, for every attack-pattern
\* record of the bundle: when one of its external references has a source
\* name that, lower-cased, is "mitre-attack", "attack" or "mitre", the id
\* parse_matrix gives the record is the external_id of the first such
\* reference ("N/A" when that reference has none); otherwise it is the
\* external_id of its first reference, and "N/A" without references.  The
\* record the Index holds for it carries that id.
C24_FirstAliasElseFirstRef ==
    (log = "saved" /\ matrix_data = parse_matrix(raw_data)) =>
        \A objects \in {raw_data.objects} :
        \A o \in {o \in 1..Len(objects) : objects[o].type = "attack-pattern"} :
        \A refs \in {Get(objects[o], "external_references", <<>>)} :
        \A aliases \in {{a \in 1..Len(refs) :
                            Lower(Get(refs[a], "source_name", <<>>)) \in MitreAliases}} :
        \A id \in {IF aliases # {}
                   THEN Get(refs[CHOOSE a \in aliases : \A b \in aliases : a <= b],
                            "external_id", NA)
                   ELSE IF refs # <<>> THEN Get(refs[1], "external_id", NA)
                   ELSE NA} :
            /\ TechData(objects[o]).id = id
            /\ \A e \in 1..Len(matrix_data.technique_index) :
                  matrix_data.technique_index[e][2].stix_id = objects[o].id
                      => matrix_data.technique_index[e][2].id = id

\* C25 - one slug rule.  In the Dataset parse_matrix returned for a
\* bundle, a retained technique one of whose phase names, lower-cased and
\* with its spaces turned into hyphens, is the slug of a tactic record of
\* the bundle (lower-cased display name, spaces turned into hyphens) is in
\* the technique list of that tactic.
C25_OneSlugRule ==
    (log = "saved" /\ matrix_data = parse_matrix(raw_data)) =>
        \A objects \in {raw_data.objects} :
        \A techs \in {DictValues(FirstPass(raw_data).techniques)} :
        \A t \in 1..Len(techs) :
        \A o \in {o \in 1..Len(objects) : objects[o].type = "x-mitre-tactic"} :
            (\E p \in 1..Len(techs[t].kill_chain_phases) :
                SpacesToHyphens(Lower(techs[t].kill_chain_phases[p]))
                    = SpacesToHyphens(Lower(Get(objects[o], "name", Unknown)))) =>
                \E i \in 1..Len(matrix_data.matrix) :
                    /\ matrix_data.matrix[i][1]
                           = SpacesToHyphens(Lower(Get(objects[o], "name", Unknown)))
                    /\ \E j \in 1..Len(matrix_data.matrix[i][2]) :
                          matrix_data.matrix[i][2][j]
                              = TechniqueObj(techs[t], FirstPass(raw_data).subtechniques)

\* C26 - the index derived at startup.  When lifespan starts on the cache
\* that save_to_cache wrote for a Dataset parse_matrix returned, the
\* technique_index it derives has the keys of the Dataset's technique_index
\* and holds under every key the record the Dataset's index holds.
C26_RebuiltIndexSame ==
    [][(/\ Startup
        /\ Truthy(matrix_data)
        /\ disk.data = File(DataText(matrix_data))) =>
           /\ {technique_index'[e][1] : e \in 1..Len(technique_index')}
                  = {matrix_data.technique_index[e][1] :
                        e \in 1..Len(matrix_data.technique_index)}
           /\ \A e \in 1..Len(technique_index') :
                 /\ DictHas(matrix_data.technique_index, technique_index'[e][1])
                 /\ technique_index'[e][2]
                        = DictGet(matrix_data.technique_index, technique_index'[e][1])
      ]_vars

\* C27 - the interval is read at the next sleep.  Over every step of a
\* running process: a set_update_interval call changes update_interval and
\* nothing of the timer loop or of a refresh (the sleep asked for, the
\* in-progress flag, the open manual refreshes, the Dataset, the index, the
\* counter, the files and the log stay as they are); a refresh that ends
\* installs the Dataset of the body it downloaded, or leaves the Dataset,
\* whatever interval was set meanwhile; and every sleep the loop starts,
\* after a refresh or after a wake-up that found a refresh running, is
\* asked for the interval set at that moment.
C27_IntervalNextSleepOnly ==
    [][/\ (proc = "serving" /\ proc' = "serving") =>
          /\ update_interval' # update_interval =>
                /\ timer' = timer
                /\ is_updating' = is_updating
                /\ manual' = manual
                /\ matrix_data' = matrix_data
                /\ technique_index' = technique_index
                /\ update_count' = update_count
                /\ last_update' = last_update
                /\ disk' = disk
                /\ log' = log
          /\ (is_updating /\ ~is_updating') =>
                \E result \in FetchResults :
                    IF Truthy(Parsed(result))
                    THEN /\ matrix_data' = Parsed(result)
                         /\ update_count' = update_count + 1
                    ELSE /\ matrix_data' = matrix_data
                         /\ update_count' = update_count
       /\ (proc' = "serving" /\ timer'.pc = "sleep" /\ timer' # timer) =>
             timer'.sleep_for = update_interval'
      ]_vars

\* "1_hour" was set while the timer's refresh was in flight or during the
\* sleep before it: the refresh is still running, the sleep that led to it
\* was asked for 24 hours, and update_interval is 3600.
C27_Witness ==
    /\ proc = "serving"
    /\ timer.pc = "fetch"
    /\ timer.sleep_for = 86400
    /\ is_updating
    /\ update_interval = 3600
    /\ response = 200

\* C28 - the script's prefix rule.  After MITREATTACKParser.parse_matrix
\* ran, a sub-technique is in the 'subtechniques' list of a technique, in
\* self.techniques and in the lists of self.matrix, exactly when its
\* external id starts with the technique's external id followed by ".";
\* so it is in the list of no technique whose id is its own id or a
\* shorter prefix of it without the ".".
C28_DrawPrefixWithDot ==
    parser.pc = "parsed" =>
        \A subs \in {DictValues(parser.subtechniques)} :
        \A u \in 1..Len(subs) :
            /\ \A t \in 1..Len(parser.techniques) :
                  (\E k \in 1..Len(Get(parser.techniques[t][2], "subtechniques", <<>>)) :
                      parser.techniques[t][2].subtechniques[k] = subs[u])
                  <=> StartsWith(subs[u].external_id,
                                 parser.techniques[t][2].external_id \o <<46>>)
            /\ \A i \in 1..Len(parser.matrix) :
                  \A j \in 1..Len(parser.matrix[i][2]) :
                      (\E k \in 1..Len(Get(parser.matrix[i][2][j], "subtechniques", <<>>)) :
                          parser.matrix[i][2][j].subtechniques[k] = subs[u])
                      <=> StartsWith(subs[u].external_id,
                                     parser.matrix[i][2][j].external_id \o <<46>>)

\* C29 - loaded stays loaded.  Over every step of a serving process (the
\* end of a refresh that failed or succeeded, one whose bundle has no
\* objects included, a trigger accepted or rejected, an interval change):
\* when a Dataset is installed before the step, one is installed after it,
\* and get_matrix answers 200 with it, never 503.
C29_LoadedStaysLoaded ==
    [][(proc = "serving" /\ proc' = "serving" /\ ~IsNone(matrix_data)) =>
          /\ ~IsNone(matrix_data')
          /\ get_matrix' = [status |-> 200, body |-> matrix_data']
          /\ get_matrix'.status # 503]_vars

\* The Dataset of the bundle without objects is installed, a refresh failed
\* at its download after that, and get_matrix answers 200.
C29_Witness ==
    /\ proc = "serving"
    /\ ~IsNone(matrix_data)
    /\ matrix_data.statistics.total_tactics = 0
    /\ matrix_data.matrix = <<>>
    /\ log = "download_error"
    /\ get_matrix.status = 200

\* C30 - the search response.  With a Dataset loaded, for every query and
\* every limit, the count search_techniques reports is the length of the
\* results it returns, so at most limit, and the results are the first
\* min(limit, number of matches) entries of the full scan of the Matrix
\* (tactics in insertion order, each technique followed by its matching
\* sub-techniques).
C30_CountIsLength ==
    Truthy(matrix_data) =>
        \A q \in SearchQueries : \A limit \in 1..MaxLimit :
        \A all \in {SearchMatrix(<<>>, matrix_data.matrix, 1, Lower(q), limit + 1000)} :
            /\ search_techniques(q, limit).count
                   = Len(search_techniques(q, limit).results)
            /\ search_techniques(q, limit).count <= limit
            /\ search_techniques(q, limit).results
                   = SubSeq(all, 1, IF Len(all) < limit THEN Len(all) ELSE limit)

====
